---- MODULE Spec2Model ----
(***************************************************************************)
(* Verification model of the Grok-Api-Chess-Bot repository.                *)
(*                                                                         *)
(*  Part I    chess rules core (position, attack test, move generation,    *)
(*            classifier), as the specification describes it and as the    *)
(*            board object used by ChessVsAI behaves                       *)
(*  Part II   ChessVsAI (src/grok_chess.py): game state, make_move,        *)
(*            undo_move, check_game_end, the AI worker and the timers      *)
(*  Part III  position import (src/src/browser_helper.py,                  *)
(*            src/chess_move_suggester.py)                                 *)
(*  Part IV   the search engine with its transposition cache               *)
(***************************************************************************)
EXTENDS Integers, Sequences, FiniteSets, TLC

(***************************************************************************)
(* Part I.  Chess rules core                                               *)
(***************************************************************************)

\* Squares are numbered a1 = 0, b1 = 1, ..., h8 = 63 (file + 8 * rank).
Squares == 0..63
FileOf(sq) == sq % 8
RankOf(sq) == sq \div 8
SqAt(f, r) == 8 * r + f
NoSquare == SqAt(0, 8)

Abs(x) == IF x < 0 THEN 0 - x ELSE x
Sgn(x) == IF x < 0 THEN 0 - 1 ELSE IF x > 0 THEN 1 ELSE 0
MaxOf(x, y) == IF x < y THEN y ELSE x
MinOf(x, y) == IF x < y THEN x ELSE y

\* Pieces are written as in the position notation: upper case white, lower
\* case black, "." an empty square.
Empty == "."
WhitePieces == {"P", "N", "B", "R", "Q", "K"}
BlackPieces == {"p", "n", "b", "r", "q", "k"}
Opp(c) == IF c = "white" THEN "black" ELSE "white"
ColorOf(p) == IF p \in WhitePieces THEN "white" ELSE "black"
IsColor(p, c) == IF c = "white" THEN p \in WhitePieces ELSE p \in BlackPieces
KindOf(p) ==
  CASE p \in {"P", "p"} -> "P"
    [] p \in {"N", "n"} -> "N"
    [] p \in {"B", "b"} -> "B"
    [] p \in {"R", "r"} -> "R"
    [] p \in {"Q", "q"} -> "Q"
    [] p \in {"K", "k"} -> "K"
    [] OTHER -> Empty
PieceOf(kind, c) ==
  IF c = "white" THEN kind
  ELSE CASE kind = "P" -> "p"
         [] kind = "N" -> "n"
         [] kind = "B" -> "b"
         [] kind = "R" -> "r"
         [] kind = "Q" -> "q"
         [] kind = "K" -> "k"
         [] OTHER -> Empty

\* A move: origin, destination, optional promotion piece kind.
Move(from, to, promo) == [from |-> from, to |-> to, promo |-> promo]
Mv(f1, r1, f2, r2) == Move(SqAt(f1, r1), SqAt(f2, r2), Empty)

\* A grid from a sparse placement (a function from some squares to pieces).
GridOf(pl) == [sq \in Squares |-> IF sq \in DOMAIN pl THEN pl[sq] ELSE Empty]

BackRank == <<"R", "N", "B", "Q", "K", "B", "N", "R">>
InitialGrid ==
  [sq \in Squares |->
     CASE RankOf(sq) = 0 -> BackRank[FileOf(sq) + 1]
       [] RankOf(sq) = 1 -> "P"
       [] RankOf(sq) = 6 -> "p"
       [] RankOf(sq) = 7 -> PieceOf(BackRank[FileOf(sq) + 1], "black")
       [] OTHER -> Empty]

\* Position: grid, side to move, castling rights, en-passant target, clocks.
InitialPosition ==
  [grid |-> InitialGrid, stm |-> "white", castling |-> {"K", "Q", "k", "q"},
   ep |-> NoSquare, halfmove |-> 0, fullmove |-> 1]

\* ---- Tier 1: raw attack test --------------------------------------------

\* The squares strictly between a and b on a rank, file or diagonal are empty.
ray_clear(grid, a, b) ==
  LET df == FileOf(b) - FileOf(a)
      dr == RankOf(b) - RankOf(a)
      n == MaxOf(Abs(df), Abs(dr))
      step == 8 * Sgn(dr) + Sgn(df)
  IN \A i \in 1..(n - 1) : grid[a + i * step] = Empty

\* The piece on a attacks b by its movement pattern alone.
can_piece_attack(grid, a, b) ==
  LET p == grid[a]
      df == FileOf(b) - FileOf(a)
      dr == RankOf(b) - RankOf(a)
      k == KindOf(p)
  IN /\ p # Empty
     /\ a # b
     /\ CASE k = "P" -> Abs(df) = 1 /\ dr = (IF p = "P" THEN 1 ELSE 0 - 1)
          [] k = "N" -> {Abs(df), Abs(dr)} = {1, 2}
          [] k = "K" -> Abs(df) <= 1 /\ Abs(dr) <= 1
          [] k = "B" -> Abs(df) = Abs(dr) /\ ray_clear(grid, a, b)
          [] k = "R" -> (df = 0 \/ dr = 0) /\ ray_clear(grid, a, b)
          [] k = "Q" -> (df = 0 \/ dr = 0 \/ Abs(df) = Abs(dr)) /\ ray_clear(grid, a, b)
          [] OTHER -> FALSE

is_square_attacked(grid, sq, by_color) ==
  \E a \in Squares : IsColor(grid[a], by_color) /\ can_piece_attack(grid, a, sq)

king_square(grid, c) ==
  LET ks == {sq \in Squares : grid[sq] = PieceOf("K", c)}
  IN IF ks = {} THEN NoSquare ELSE CHOOSE sq \in ks : TRUE

is_in_check(pos, c) ==
  LET k == king_square(pos.grid, c)
  IN k # NoSquare /\ is_square_attacked(pos.grid, k, Opp(c))

\* ---- Position state: apply -----------------------------------------------

HomeRank(c) == IF c = "white" THEN 0 ELSE 7
PawnDir(c) == IF c = "white" THEN 1 ELSE 0 - 1
PawnStartRank(c) == IF c = "white" THEN 1 ELSE 6
KingSideRight(c) == IF c = "white" THEN "K" ELSE "k"
QueenSideRight(c) == IF c = "white" THEN "Q" ELSE "q"

is_en_passant(pos, m) ==
  /\ KindOf(pos.grid[m.from]) = "P"
  /\ pos.ep # NoSquare
  /\ m.to = pos.ep
  /\ FileOf(m.to) # FileOf(m.from)
  /\ pos.grid[m.to] = Empty

is_castling(pos, m) ==
  /\ KindOf(pos.grid[m.from]) = "K"
  /\ Abs(FileOf(m.to) - FileOf(m.from)) = 2

is_capture(pos, m) == pos.grid[m.to] # Empty \/ is_en_passant(pos, m)

\* Castling rights lost by a move: a king move clears both of the mover's
\* rights, a rook leaving its home corner clears that right, and a capture on
\* a rook's home corner clears the right that belongs to that corner.
rights_lost(pos, m) ==
  LET c == pos.stm
      k == KindOf(pos.grid[m.from])
      corner(sq) ==
        IF sq = SqAt(7, 0) THEN {"K"}
        ELSE IF sq = SqAt(0, 0) THEN {"Q"}
        ELSE IF sq = SqAt(7, 7) THEN {"k"}
        ELSE IF sq = SqAt(0, 7) THEN {"q"}
        ELSE {}
  IN (IF k = "K" THEN {KingSideRight(c), QueenSideRight(c)} ELSE {})
       \cup (IF k = "R" THEN corner(m.from) ELSE {})
       \cup (IF pos.grid[m.to] # Empty THEN corner(m.to) ELSE {})

\* The rights told from where kings and rooks stand once the move is made: a
\* rook or king that comes back home has its right again.
castling_after_by_placement(pos, m) ==
  LET g == [pos.grid EXCEPT ![m.to] = pos.grid[m.from], ![m.from] = Empty]
  IN (IF g[SqAt(4, 0)] = "K" /\ g[SqAt(7, 0)] = "R" THEN {"K"} ELSE {})
       \cup (IF g[SqAt(4, 0)] = "K" /\ g[SqAt(0, 0)] = "R" THEN {"Q"} ELSE {})
       \cup (IF g[SqAt(4, 7)] = "k" /\ g[SqAt(7, 7)] = "r" THEN {"k"} ELSE {})
       \cup (IF g[SqAt(4, 7)] = "k" /\ g[SqAt(0, 7)] = "r" THEN {"q"} ELSE {})

\* The castling-right flags after a move: flags are only ever cleared.
castling_after(pos, m) == pos.castling \ rights_lost(pos, m)

\* The target left standing until a later two-square advance replaces it.
ep_after_not_cleared(pos, m) ==
  IF /\ KindOf(pos.grid[m.from]) = "P"
     /\ Abs(RankOf(m.to) - RankOf(m.from)) = 2
  THEN SqAt(FileOf(m.from), RankOf(m.from) + PawnDir(pos.stm))
  ELSE pos.ep

\* The en-passant target after a move: the square a pawn passed over in a
\* two-square advance, none after any other move.
ep_after(pos, m) ==
  IF /\ KindOf(pos.grid[m.from]) = "P"
     /\ Abs(RankOf(m.to) - RankOf(m.from)) = 2
  THEN SqAt(FileOf(m.from), RankOf(m.from) + PawnDir(pos.stm))
  ELSE NoSquare

\* apply(move): the position after the move (validity is the generator's job).
ApplyCore(pos, m) ==
  LET g == pos.grid
      p == g[m.from]
      c == pos.stm
      k == KindOf(p)
      ep_capture == is_en_passant(pos, m)
      castle == is_castling(pos, m)
      king_side == FileOf(m.to) > FileOf(m.from)
      rook_from == SqAt(IF king_side THEN 7 ELSE 0, RankOf(m.from))
      rook_to == SqAt(IF king_side THEN 5 ELSE 3, RankOf(m.from))
      ep_victim == SqAt(FileOf(m.to), RankOf(m.from))
      placed == IF k = "P" /\ m.promo # Empty THEN PieceOf(m.promo, c) ELSE p
  IN [pos EXCEPT
        !.grid = [sq \in Squares |->
                    IF sq = m.to THEN placed
                    ELSE IF sq = m.from THEN Empty
                    ELSE IF ep_capture /\ sq = ep_victim THEN Empty
                    ELSE IF castle /\ sq = rook_from THEN Empty
                    ELSE IF castle /\ sq = rook_to THEN g[rook_from]
                    ELSE g[sq]],
        !.stm = Opp(c),
        !.castling = castling_after(pos, m),
        !.ep = ep_after(pos, m),
        !.halfmove = IF k = "P" \/ is_capture(pos, m) THEN 0 ELSE pos.halfmove + 1,
        !.fullmove = IF c = "black" THEN pos.fullmove + 1 ELSE pos.fullmove]

\* ---- Tier 2: pseudo-legal and legal moves --------------------------------

PromoKinds == {"Q", "R", "B", "N"}

pawn_moves(pos, sq) ==
  LET g == pos.grid
      c == ColorOf(g[sq])
      d == PawnDir(c)
      f == FileOf(sq)
      r == RankOf(sq)
      one == SqAt(f, r + d)
      two == SqAt(f, r + 2 * d)
      advance ==
        IF r + d \in 0..7 /\ g[one] = Empty
        THEN {one} \cup (IF r = PawnStartRank(c) /\ g[two] = Empty THEN {two} ELSE {})
        ELSE {}
      captures ==
        {b \in {SqAt(f2, r + d) : f2 \in {f - 1, f + 1} \cap (0..7)} :
           /\ r + d \in 0..7
           /\ \/ (g[b] # Empty /\ ~IsColor(g[b], c))
              \/ (b = pos.ep /\ g[b] = Empty /\ r = (IF c = "white" THEN 4 ELSE 3))}
      dests == advance \cup captures
  IN UNION {IF RankOf(b) = HomeRank(Opp(c))
            THEN {Move(sq, b, k) : k \in PromoKinds}
            ELSE {Move(sq, b, Empty)} : b \in dests}

castling_moves(pos, sq) ==
  LET g == pos.grid
      c == ColorOf(g[sq])
      r == HomeRank(c)
      free(files) == \A f \in files : g[SqAt(f, r)] = Empty
      safe(files) == \A f \in files : ~is_square_attacked(g, SqAt(f, r), Opp(c))
  IN IF sq # SqAt(4, r) THEN {}
     ELSE (IF /\ KingSideRight(c) \in pos.castling
              /\ g[SqAt(7, r)] = PieceOf("R", c)
              /\ free({5, 6})
              /\ safe({4, 5, 6})
           THEN {Move(sq, SqAt(6, r), Empty)} ELSE {})
          \cup
          (IF /\ QueenSideRight(c) \in pos.castling
              /\ g[SqAt(0, r)] = PieceOf("R", c)
              /\ free({1, 2, 3})
              /\ safe({4, 3, 2})
           THEN {Move(sq, SqAt(2, r), Empty)} ELSE {})

pseudo_moves(pos, sq) ==
  LET g == pos.grid
      p == g[sq]
      k == KindOf(p)
      c == ColorOf(p)
      reach == {Move(sq, b, Empty) :
                  b \in {b \in Squares : /\ can_piece_attack(g, sq, b)
                                         /\ ~IsColor(g[b], c)}}
  IN IF p = Empty THEN {}
     ELSE IF k = "P" THEN pawn_moves(pos, sq)
     ELSE IF k = "K" THEN reach \cup castling_moves(pos, sq)
     ELSE reach

\* The trial is made for moves of the king only.
king_safe_after_king_moves_only(pos, m) ==
  LET after == ApplyCore(pos, m)
  IN KindOf(pos.grid[m.from]) = "K" => ~is_in_check(after, pos.stm)

\* The mover's king is not attacked after the trial move.
king_safe_after(pos, m) ==
  LET after == ApplyCore(pos, m)
  IN ~is_in_check(after, pos.stm)

OwnSquares(pos) == {sq \in Squares : IsColor(pos.grid[sq], pos.stm)}

legal_moves_from(pos, sq) ==
  {m \in pseudo_moves(pos, sq) : king_safe_after(pos, m)}

legal_moves(pos) == UNION {legal_moves_from(pos, sq) : sq \in OwnSquares(pos)}

\* Membership test of one move, as the board object answers `move in legal_moves`.
is_legal(pos, m) ==
  /\ m.from \in Squares /\ m.to \in Squares
  /\ IsColor(pos.grid[m.from], pos.stm)
  /\ m \in pseudo_moves(pos, m.from)
  /\ king_safe_after(pos, m)

has_legal_move(pos) ==
  \E sq \in OwnSquares(pos) : \E m \in pseudo_moves(pos, sq) : king_safe_after(pos, m)

\* ---- Game state classifier ------------------------------------------------

is_checkmate(pos) == is_in_check(pos, pos.stm) /\ ~has_legal_move(pos)
is_stalemate(pos) == ~is_in_check(pos, pos.stm) /\ ~has_legal_move(pos)

SquareShade(sq) == (FileOf(sq) + RankOf(sq)) % 2

is_insufficient_material(pos) ==
  LET g == pos.grid
      others == {sq \in Squares : g[sq] # Empty /\ KindOf(g[sq]) # "K"}
      minors == {sq \in others : KindOf(g[sq]) \in {"B", "N"}}
  IN \/ others = {}
     \/ (Cardinality(others) = 1 /\ minors = others)
     \/ /\ Cardinality(others) = 2
        /\ \A sq \in others : KindOf(g[sq]) = "B"
        /\ \E a, b \in others : /\ ColorOf(g[a]) # ColorOf(g[b])
                                /\ SquareShade(a) = SquareShade(b)

FiftyMovePlies == 100
is_fifty_move_draw(pos) == pos.halfmove >= FiftyMovePlies

\* Board.has_legal_en_passant(): the en-passant target can be captured on.
has_legal_en_passant(pos) ==
  /\ pos.ep # NoSquare
  /\ \E sq \in Squares :
       /\ pos.grid[sq] = PieceOf("P", pos.stm)
       /\ RankOf(sq) + PawnDir(pos.stm) = RankOf(pos.ep)
       /\ Abs(FileOf(sq) - FileOf(pos.ep)) = 1
       /\ is_legal(pos, Move(sq, pos.ep, Empty))

\* The signature under which positions are counted for repetition and keyed in
\* caches (Board._transposition_key, Board.fen()): the en-passant target is
\* part of it only when a capture on it is legal.
Signature(pos) ==
  [grid |-> pos.grid, stm |-> pos.stm, castling |-> pos.castling,
   ep |-> IF has_legal_en_passant(pos) THEN pos.ep ELSE NoSquare]


\* ---- chess.Board: a position with the stack of the moves pushed ----------

BoardAt(pos) == [pos |-> pos, stack |-> <<>>]
NewBoard == BoardAt(InitialPosition)
MovesOf(b) == [i \in 1..Len(b.stack) |-> b.stack[i].move]
board_push(b, m) ==
  [pos |-> ApplyCore(b.pos, m),
   stack |-> Append(b.stack, [move |-> m, prev |-> b.pos])]
board_pop(b) ==
  [pos |-> b.stack[Len(b.stack)].prev,
   stack |-> SubSeq(b.stack, 1, Len(b.stack) - 1)]

\* The current position counted as repeated from its second occurrence.
is_repetition_twice(b) ==
  \E i \in 1..Len(b.stack) : Signature(b.stack[i].prev) = Signature(b.pos)

\* Board.is_repetition(): the current position has occurred three times.
is_repetition(b) ==
  LET sig == Signature(b.pos)
      earlier == {i \in 1..Len(b.stack) : Signature(b.stack[i].prev) = sig}
  IN Cardinality(earlier) + 1 >= 3

DropLast(q) == SubSeq(q, 1, Len(q) - 1)

(***************************************************************************)
(* State                                                                   *)
(***************************************************************************)
VARIABLES
  rboard,   \* move generator exploration: the board, with its move stack
  rply,     \* move generator exploration: plies applied so far
  rmode,    \* move generator exploration: "all" legal moves or a "line"
  \* ChessVsAI (src/grok_chess.py)
  chess_board,          \* chess.Board: current position and its move stack
  move_history,         \* list of {'move', 'board'} records
  board_history,        \* list of board copies, one more than move_history
  evaluations,          \* list of evaluations
  best_moves,           \* list of best moves
  selected_square,
  last_move,
  current_turn,
  game_over,
  review_mode,
  current_review_move,
  ai_thinking,
  player_side,
  engine,               \* "loaded" or "none" (self.engine is None)
  buttons,              \* which button set setup_control_buttons last built
  ai_timers,            \* pending root.after(.., self.ai_move) callbacks
  review_timers,        \* pending root.after(1000, self.enter_review_mode)
  worker,               \* the get_ai_move thread and its execute_move callback
  ret,                  \* the value returned by the last make_move / undo_move
  engine_errors,        \* how many engine.analyse calls have raised
  before_ply,           \* history variable: the state before each ply played
  ollama_cache,         \* the lru_cache of cached_ollama_move
  ai_ret,               \* the last direct call of a helper: inputs and result
  board_lock,           \* threading.Lock: the thread holding it, those waiting
  board_corners,        \* ChessBoardDetector.board_corners: "none" or "found"
  import_ret,           \* the last position import: its input's defect, its result
  position,             \* the Position the search engine works on
  frames,               \* the stack of the calls of search in progress
  cache,                \* the transposition cache
  pc,                   \* where the search engine stands
  sret,                 \* the value the last call of search returned
  root,                 \* the arguments of the outermost call of search
  roots,                \* the positions the caller asks searches for
  policy,               \* how the engine orders the moves of a node
  searches,             \* the depths of the outermost calls made, summed
  last_lookup,          \* the last cache entry returned in place of a search
  results,              \* history variable: the scores of the outermost calls
  trail                 \* history variable: what the search in progress has done

rules_vars == <<rboard, rply, rmode>>
game_vars ==
  <<chess_board, move_history, board_history, evaluations, best_moves,
    selected_square, last_move, current_turn, game_over, review_mode,
    current_review_move, ai_thinking, player_side, engine, buttons, ai_timers,
    review_timers, worker, ret, engine_errors, before_ply, ollama_cache, ai_ret,
    board_lock>>
played_vars ==
  <<chess_board, move_history, board_history, evaluations, best_moves,
    selected_square, last_move, current_turn, game_over, review_mode,
    current_review_move, ai_thinking, player_side, engine, buttons, ai_timers,
    review_timers, worker, ret, engine_errors, before_ply>>
import_vars == <<board_corners, import_ret>>
search_vars ==
  <<position, frames, cache, pc, sret, root, roots, policy, searches, last_lookup,
    results, trail>>
vars == <<rules_vars, game_vars, import_vars, search_vars>>
non_rules_vars == <<game_vars, import_vars, search_vars>>
non_game_vars == <<rules_vars, import_vars, search_vars>>
non_import_vars == <<rules_vars, game_vars, search_vars>>
non_search_vars == <<rules_vars, game_vars, import_vars>>

(***************************************************************************)
(* Move generator exploration: every legal move of every position that     *)
(* legal play reaches from a set of starting positions.                    *)
(***************************************************************************)

MaxRulePlies == 2

\* White: Ke1 Rh1 Bd2 Pe5; black: Ke8 Bb4 Pd5, black has just played d7-d5.
\* The bishop on d2 is pinned, e5xd6 en passant and O-O are available.
PinCastleEpPosition ==
  [grid |-> GridOf((SqAt(4, 0) :> "K") @@ (SqAt(7, 0) :> "R") @@ (SqAt(3, 1) :> "B")
                   @@ (SqAt(4, 4) :> "P") @@ (SqAt(4, 7) :> "k") @@ (SqAt(1, 3) :> "b")
                   @@ (SqAt(3, 4) :> "p")),
   stm |-> "white", castling |-> {"K"}, ep |-> SqAt(3, 5), halfmove |-> 0,
   fullmove |-> 20]

\* White: Kg1 Pb7 Pg2; black: Kh8 Ra8 Re2, black to move or white to promote.
PromotionPosition ==
  [grid |-> GridOf((SqAt(6, 0) :> "K") @@ (SqAt(1, 6) :> "P") @@ (SqAt(6, 1) :> "P")
                   @@ (SqAt(7, 7) :> "k") @@ (SqAt(0, 7) :> "r") @@ (SqAt(4, 1) :> "r")),
   stm |-> "white", castling |-> {}, ep |-> NoSquare, halfmove |-> 3,
   fullmove |-> 40]

\* White: Ka1 Pe5; black: Kh8 Pd7 Pf7: a two-square advance of either black
\* pawn passes a square the white pawn attacks.
EnPassantPosition ==
  [grid |-> GridOf((SqAt(0, 0) :> "K") @@ (SqAt(4, 4) :> "P") @@ (SqAt(7, 7) :> "k")
                   @@ (SqAt(3, 6) :> "p") @@ (SqAt(5, 6) :> "p")),
   stm |-> "white", castling |-> {}, ep |-> NoSquare, halfmove |-> 0,
   fullmove |-> 30]

RulePositions ==
  {InitialPosition, PinCastleEpPosition, PromotionPosition, EnPassantPosition}

\* The moves of the lines played out from the initial position:
\* 1.e4 e5 2.Qh5 Nc6 3.Qxf7+ Kxf7.
MaxLinePlies == 5
LineMoves ==
  {Mv(4, 1, 4, 3), Mv(4, 6, 4, 4), Mv(3, 0, 7, 4), Mv(1, 7, 2, 5),
   Mv(7, 4, 5, 6), Mv(4, 7, 5, 6)}

\* The shuffles: knights go out and back, 1.Nf3 Nf6 2.Ng1 Ng8 and so on,
\* from the initial position and from the position after 1.e4.
MaxShufflePlies == 8
ShuffleMoves ==
  {Mv(6, 0, 5, 2), Mv(5, 2, 6, 0), Mv(6, 7, 5, 5), Mv(5, 5, 6, 7),
   Mv(1, 0, 2, 2), Mv(2, 2, 1, 0)}
ShuffleStarts == {InitialPosition, ApplyCore(InitialPosition, Mv(4, 1, 4, 3))}

RulesInit ==
  \/ rmode = "all" /\ rboard \in {BoardAt(pos) : pos \in RulePositions} /\ rply = 0
  \/ rmode = "line" /\ rboard = NewBoard /\ rply = 0
  \/ rmode = "shuffle" /\ rboard \in {BoardAt(pos) : pos \in ShuffleStarts}
       /\ rply = 0

RulesIdle == rmode = "idle" /\ rboard = NewBoard /\ rply = 0

\* Any legal move of the position.
ApplyLegalMove ==
  /\ UNCHANGED non_rules_vars
  /\ rmode = "all"
  /\ rply < MaxRulePlies
  /\ \E m \in legal_moves(rboard.pos) :
       /\ rboard' = board_push(rboard, m)
       /\ rply' = rply + 1
  /\ UNCHANGED rmode

\* A move of the lines, when it is legal.
ApplyLineMove ==
  /\ UNCHANGED non_rules_vars
  /\ rmode = "line"
  /\ rply < MaxLinePlies
  /\ \E m \in LineMoves :
       /\ is_legal(rboard.pos, m)
       /\ rboard' = board_push(rboard, m)
       /\ rply' = rply + 1
  /\ UNCHANGED rmode

\* A move of the shuffles, when it is legal.
ApplyShuffleMove ==
  /\ UNCHANGED non_rules_vars
  /\ rmode = "shuffle"
  /\ rply < MaxShufflePlies
  /\ \E m \in ShuffleMoves :
       /\ is_legal(rboard.pos, m)
       /\ rboard' = board_push(rboard, m)
       /\ rply' = rply + 1
  /\ UNCHANGED rmode

(***************************************************************************)
(* Part II.  ChessVsAI (src/grok_chess.py)                                 *)
(***************************************************************************)

MaxPlies == 4
MaxTimers == 1
MaxAiTimers == 2
MaxEngineErrors == 1

NoMove == Move(NoSquare, NoSquare, Empty)

\* The moves the opening book, Ollama, Stockfish and the random choice are
\* drawn from, and the squares the user clicks: 1.f3 e5 2.g4 Qh4 mate.
MoveInputs ==
  {Mv(5, 1, 5, 2), Mv(4, 6, 4, 4), Mv(6, 1, 6, 3), Mv(3, 7, 7, 3)}
ClickSquares == {m.from : m \in MoveInputs} \cup {m.to : m \in MoveInputs}

\* ---- get_position_evaluation ---------------------------------------------

MaterialOf(p) ==
  CASE KindOf(p) = "P" -> 1
    [] KindOf(p) = "N" -> 3
    [] KindOf(p) = "B" -> 3
    [] KindOf(p) = "R" -> 5
    [] KindOf(p) = "Q" -> 9
    [] OTHER -> 0
RECURSIVE SumOver(_, _)
SumOver(S, f) ==
  IF S = {} THEN 0
  ELSE LET x == CHOOSE y \in S : TRUE IN f[x] + SumOver(S \ {x}, f)
RelativeMaterial(pos) ==
  LET val == [sq \in Squares |->
                IF pos.grid[sq] = Empty THEN 0
                ELSE IF IsColor(pos.grid[sq], pos.stm) THEN MaterialOf(pos.grid[sq])
                ELSE 0 - MaterialOf(pos.grid[sq])]
  IN SumOver({sq \in Squares : pos.grid[sq] # Empty}, val)
\* engine.analyse on a position: a mate score or centipawns relative to the
\* side to move, and a principal variation.
engine_analyse(pos) ==
  [mate |-> is_checkmate(pos), cp |-> 100 * RelativeMaterial(pos),
   pv |-> IF \E m \in MoveInputs : is_legal(pos, m)
          THEN <<CHOOSE m \in MoveInputs : is_legal(pos, m)>> ELSE <<>>]

\* The pair (evaluation, best move) that get_position_evaluation appends for
\* the position pos; `ok` is FALSE when engine.analyse raises.
Pawns(x) == [kind |-> "pawns", v |-> x]
MateIn(n) == [kind |-> "mate", v |-> n]
evaluation_of(answer) ==
  [eval |-> IF answer.mate THEN MateIn(0) ELSE Pawns(answer.cp \div 100),
   best |-> IF answer.pv # <<>> THEN answer.pv[1] ELSE NoMove]
get_position_evaluation(eng, pos, ok) ==
  IF eng = "none" THEN [eval |-> Pawns(0), best |-> NoMove]
  ELSE IF ~ok THEN [eval |-> Pawns(0), best |-> NoMove]
  ELSE evaluation_of(engine_analyse(pos))

\* ---- make_move ------------------------------------------------------------

GameState ==
  [chess_board |-> chess_board, move_history |-> move_history,
   board_history |-> board_history, evaluations |-> evaluations,
   best_moves |-> best_moves]

\* The refusal without the test of the move against the board's legal moves.
make_move_refused_unless_playing(move) == game_over \/ review_mode

make_move_refused(move) ==
  game_over \/ review_mode \/ ~is_legal(chess_board.pos, move)

\* make_move(move): refuses without touching anything, or pushes the move and
\* appends to the four lists, flips current_turn and records last_move.
make_move(move, ok) ==
  IF make_move_refused(move)
  THEN /\ ret' = [op |-> "make_move", val |-> FALSE]
       /\ UNCHANGED <<chess_board, move_history, board_history, evaluations,
                      best_moves, current_turn, last_move, before_ply,
                      engine_errors>>
  ELSE \E pushed \in {board_push(chess_board, move)} :
       \E ev \in {get_position_evaluation(engine, pushed.pos, ok)} :
          /\ chess_board' = pushed
          /\ move_history' = Append(move_history, [move |-> move, board |-> chess_board])
          /\ board_history' = Append(board_history, pushed)
          /\ evaluations' = Append(evaluations, ev.eval)
          /\ best_moves' = Append(best_moves, ev.best)
          /\ current_turn' = Opp(current_turn)
          /\ last_move' = <<move.from, move.to>>
          /\ ret' = [op |-> "make_move", val |-> TRUE]
          /\ engine_errors' = IF engine # "none" /\ ~ok THEN engine_errors + 1
                               ELSE engine_errors
          /\ before_ply' = Append(before_ply, GameState)

\* ---- check_game_end -------------------------------------------------------

\* Every check counted as checkmate.
game_end_reason_check_is_mate(b) ==
  IF is_in_check(b.pos, b.pos.stm) THEN "checkmate"
  ELSE IF is_stalemate(b.pos) THEN "stalemate"
  ELSE ""

\* The condition check_game_end's if/elif chain finds first ("" for none).
game_end_reason(b) ==
  IF is_checkmate(b.pos) THEN "checkmate"
  ELSE IF is_stalemate(b.pos) THEN "stalemate"
  ELSE IF is_insufficient_material(b.pos) THEN "insufficient material"
  ELSE IF is_fifty_move_draw(b.pos) THEN "fifty-move rule"
  ELSE IF is_repetition(b) THEN "repetition"
  ELSE ""

\* The timer for the review is started but game_over is left as it was.
check_game_end_flag_not_set(b, over, timers) ==
  IF game_end_reason(b) # ""
  THEN [game_over |-> over, review_timers |-> timers + 1]
  ELSE [game_over |-> over, review_timers |-> timers]

\* check_game_end on the board b: game_over and the enter_review_mode timer.
check_game_end(b, over, timers) ==
  IF game_end_reason(b) # ""
  THEN [game_over |-> TRUE, review_timers |-> timers + 1]
  ELSE [game_over |-> over, review_timers |-> timers]


\* ---- reset_game -----------------------------------------------------------

reset_game ==
  /\ chess_board' = NewBoard
  /\ move_history' = <<>>
  /\ board_history' = <<NewBoard>>
  /\ evaluations' = <<Pawns(0)>>
  /\ best_moves' = <<NoMove>>
  /\ selected_square' = NoSquare
  /\ last_move' = <<>>
  /\ current_turn' = "white"
  /\ game_over' = FALSE
  /\ review_mode' = FALSE
  /\ current_review_move' = 0
  /\ ai_thinking' = FALSE
  /\ before_ply' = <<>>

\* ---- undo_move ------------------------------------------------------------

lists_in_sync ==
  /\ Len(move_history) = Len(board_history) - 1
  /\ Len(board_history) - 1 = Len(evaluations)
  /\ Len(evaluations) = Len(best_moves)

\* The body of undo_move's loop, run k times on the five objects; `failed`
\* when chess_board.pop() finds the board's own move stack empty.
RECURSIVE undo_loop(_, _)
undo_loop(st, k) ==
  IF k = 0 \/ st.failed THEN st
  ELSE IF st.move_history = <<>> THEN undo_loop(st, k - 1)
  ELSE LET popped == [st EXCEPT !.move_history = DropLast(@),
                                !.board_history = DropLast(@),
                                !.evaluations = DropLast(@),
                                !.best_moves = DropLast(@)]
       IN IF st.chess_board.stack = <<>>
          THEN [popped EXCEPT !.failed = TRUE]
          ELSE undo_loop([popped EXCEPT !.chess_board = board_pop(@)], k - 1)

undo_move ==
  IF move_history = <<>> \/ review_mode \/ ai_thinking
  THEN /\ ret' = [op |-> "undo_move", val |-> FALSE]
       /\ UNCHANGED <<chess_board, move_history, board_history, evaluations,
                      best_moves, current_turn, game_over, last_move, before_ply>>
  ELSE IF ~lists_in_sync
  THEN /\ ret' = [op |-> "undo_move", val |-> FALSE]
       /\ UNCHANGED <<chess_board, move_history, board_history, evaluations,
                      best_moves, current_turn, game_over, last_move, before_ply>>
  ELSE LET moves_to_undo == IF Len(move_history) >= 2 THEN 2 ELSE 1
           st == undo_loop([chess_board |-> chess_board,
                            move_history |-> move_history,
                            board_history |-> board_history,
                            evaluations |-> evaluations,
                            best_moves |-> best_moves,
                            failed |-> FALSE], moves_to_undo)
       IN /\ chess_board' = st.chess_board
          /\ move_history' = st.move_history
          /\ board_history' = st.board_history
          /\ evaluations' = st.evaluations
          /\ best_moves' = st.best_moves
          /\ before_ply' = SubSeq(before_ply, 1, Len(st.move_history))
          /\ IF st.failed
             THEN /\ ret' = [op |-> "undo_move", val |-> FALSE]
                  /\ UNCHANGED <<current_turn, game_over, last_move>>
             ELSE /\ current_turn' = IF Len(st.move_history) % 2 = 0
                                     THEN "white" ELSE "black"
                  /\ game_over' = FALSE
                  /\ last_move' = <<>>
                  /\ ret' = [op |-> "undo_move", val |-> TRUE]

\* ---- board_lock -------------------------------------------------------------

\* threading.Lock: acquire takes a free lock; on a lock that is held, by
\* whichever thread, the caller waits until it is released.
FreeLock == [held_by |-> "none", waiting |-> {}]
acquire(lock, thread) ==
  IF lock.held_by = "none" THEN [lock EXCEPT !.held_by = thread]
  ELSE [lock EXCEPT !.waiting = @ \cup {thread}]
release(lock) == [lock EXCEPT !.held_by = "none"]

\* The GUI thread runs its handlers and timer callbacks unless it waits.
gui_runs == "gui" \notin board_lock.waiting

\* ---- handlers of the GUI thread -------------------------------------------

setup_control_buttons(review) == IF review THEN "review" ELSE "play"

\* attempt_move(target_square), with the promotion dialog's answer (Empty:
\* cancelled) and whether the evaluation request succeeds.
attempt_move(target, promotion, ok) ==
  LET piece == chess_board.pos.grid[selected_square]
      promoting == KindOf(piece) = "P" /\ RankOf(target) \in {0, 7}
      move == Move(selected_square, target, IF promoting THEN promotion ELSE Empty)
  IN IF piece = Empty
     THEN UNCHANGED game_vars
     ELSE IF promoting /\ promotion = Empty
     THEN /\ selected_square' = NoSquare
          /\ UNCHANGED <<chess_board, move_history, board_history, evaluations,
                         best_moves, last_move, current_turn, game_over,
                         review_mode, current_review_move, ai_thinking,
                         player_side, engine, buttons, ai_timers, review_timers,
                         worker, ret, engine_errors, before_ply>>
     ELSE IF is_legal(chess_board.pos, move)
     THEN /\ make_move(move, ok)
          /\ LET end == check_game_end(chess_board', game_over, review_timers)
                 ai_next == ~end.game_over /\ current_turn' # player_side
             IN IF ret'.val
                THEN /\ game_over' = end.game_over
                     /\ review_timers' = end.review_timers
                     /\ review_timers' <= MaxTimers
                     /\ ai_timers' = IF ai_next THEN ai_timers + 1 ELSE ai_timers
                     /\ ai_timers' <= MaxAiTimers
                ELSE UNCHANGED <<game_over, review_timers, ai_timers>>
          /\ selected_square' = NoSquare
          /\ UNCHANGED <<review_mode, current_review_move, ai_thinking,
                         player_side, engine, buttons, worker>>
     ELSE /\ selected_square' = NoSquare
          /\ UNCHANGED <<chess_board, move_history, board_history, evaluations,
                         best_moves, last_move, current_turn, game_over,
                         review_mode, current_review_move, ai_thinking,
                         player_side, engine, buttons, ai_timers, review_timers,
                         worker, ret, engine_errors, before_ply>>

\* The board square of a clicked GUI cell.
clicked_square(gui_row, gui_col) ==
  LET board_row == IF player_side = "black" THEN 7 - gui_row ELSE gui_row
  IN SqAt(gui_col, 7 - board_row)

on_click(gui_row, gui_col, promotion, ok) ==
  LET square == clicked_square(gui_row, gui_col)
      piece == chess_board.pos.grid[square]
      own == piece # Empty /\ IsColor(piece, current_turn)
      select(sq) ==
        /\ selected_square' = sq
        /\ UNCHANGED <<chess_board, move_history, board_history, evaluations,
                       best_moves, last_move, current_turn, game_over,
                       review_mode, current_review_move, ai_thinking,
                       player_side, engine, buttons, ai_timers, review_timers,
                       worker, ret, engine_errors, before_ply>>
  IN IF game_over \/ review_mode \/ ai_thinking
     THEN UNCHANGED game_vars
     ELSE IF (current_turn = "white") # (player_side = "white")
     THEN UNCHANGED game_vars
     ELSE IF selected_square = NoSquare
     THEN (IF own THEN select(square) ELSE UNCHANGED game_vars)
     ELSE IF square = selected_square THEN select(NoSquare)
     ELSE IF own THEN select(square)
     ELSE attempt_move(square, promotion, ok)

\* The answers the promotion dialog can give for a move to target.
PromotionAnswers(target) ==
  IF /\ selected_square # NoSquare
     /\ KindOf(chess_board.pos.grid[selected_square]) = "P"
     /\ RankOf(target) \in {0, 7}
  THEN PromoKinds \cup {Empty}
  ELSE {Empty}

\* Whether an engine.analyse call returns (TRUE) or raises (FALSE).
AnalyseOutcomes ==
  IF engine = "none" \/ engine_errors >= MaxEngineErrors THEN {TRUE} ELSE BOOLEAN

OnClick ==
  /\ UNCHANGED non_game_vars
  /\ UNCHANGED <<ollama_cache, ai_ret, board_lock>>
  /\ gui_runs
  /\ Len(move_history) < MaxPlies
  /\ \E gui_row \in 0..7, gui_col \in 0..7 :
       /\ clicked_square(gui_row, gui_col) \in ClickSquares
       /\ \E promotion \in PromotionAnswers(clicked_square(gui_row, gui_col)) :
            \E ok \in AnalyseOutcomes : on_click(gui_row, gui_col, promotion, ok)

UndoMove ==
  /\ UNCHANGED non_game_vars
  /\ UNCHANGED <<ollama_cache, ai_ret, board_lock>>
  /\ gui_runs
  /\ undo_move
  /\ UNCHANGED <<selected_square, review_mode, current_review_move, ai_thinking,
                 player_side, engine, buttons, ai_timers, review_timers, worker,
                 engine_errors>>

enter_review_mode ==
  /\ review_mode' = TRUE
  /\ current_review_move' = Len(move_history)
  /\ buttons' = setup_control_buttons(TRUE)

\* The Resign button exists only in the button set built outside review mode.
Resign ==
  /\ UNCHANGED non_game_vars
  /\ UNCHANGED <<ollama_cache, ai_ret, board_lock>>
  /\ gui_runs
  /\ buttons = "play"
  /\ IF ~game_over /\ ~ai_thinking
     THEN /\ game_over' = TRUE
          /\ enter_review_mode
     ELSE UNCHANGED <<game_over, review_mode, current_review_move, buttons>>
  /\ UNCHANGED <<chess_board, move_history, board_history, evaluations,
                 best_moves, selected_square, last_move, current_turn,
                 ai_thinking, player_side, engine, ai_timers, review_timers,
                 worker, ret, engine_errors, before_ply>>

EnterReviewTimer ==
  /\ UNCHANGED non_game_vars
  /\ UNCHANGED <<ollama_cache, ai_ret, board_lock>>
  /\ gui_runs
  /\ review_timers > 0
  /\ review_timers' = review_timers - 1
  /\ enter_review_mode
  /\ UNCHANGED <<chess_board, move_history, board_history, evaluations,
                 best_moves, selected_square, last_move, current_turn,
                 game_over, ai_thinking, player_side, engine, ai_timers,
                 worker, ret, engine_errors, before_ply>>

ExitReview ==
  /\ UNCHANGED non_game_vars
  /\ UNCHANGED <<ollama_cache, ai_ret, board_lock>>
  /\ gui_runs
  /\ buttons = "review"
  /\ review_mode' = FALSE
  /\ buttons' = setup_control_buttons(FALSE)
  /\ UNCHANGED <<chess_board, move_history, board_history, evaluations,
                 best_moves, selected_square, last_move, current_turn,
                 game_over, current_review_move, ai_thinking, player_side,
                 engine, ai_timers, review_timers, worker, ret, engine_errors, before_ply>>

PrevMove ==
  /\ UNCHANGED non_game_vars
  /\ UNCHANGED <<ollama_cache, ai_ret, board_lock>>
  /\ gui_runs
  /\ buttons = "review"
  /\ IF current_review_move > 0
     THEN /\ current_review_move' = current_review_move - 1
          /\ buttons' = setup_control_buttons(review_mode)
     ELSE UNCHANGED <<current_review_move, buttons>>
  /\ UNCHANGED <<chess_board, move_history, board_history, evaluations,
                 best_moves, selected_square, last_move, current_turn,
                 game_over, review_mode, ai_thinking, player_side, engine,
                 ai_timers, review_timers, worker, ret, engine_errors, before_ply>>

NextMove ==
  /\ UNCHANGED non_game_vars
  /\ UNCHANGED <<ollama_cache, ai_ret, board_lock>>
  /\ gui_runs
  /\ buttons = "review"
  /\ IF current_review_move < Len(move_history)
     THEN /\ current_review_move' = current_review_move + 1
          /\ buttons' = setup_control_buttons(review_mode)
     ELSE UNCHANGED <<current_review_move, buttons>>
  /\ UNCHANGED <<chess_board, move_history, board_history, evaluations,
                 best_moves, selected_square, last_move, current_turn,
                 game_over, review_mode, ai_thinking, player_side, engine,
                 ai_timers, review_timers, worker, ret, engine_errors, before_ply>>

\* new_game without its test of ai_thinking.
new_game_while_thinking(side) ==
  /\ reset_game
  /\ buttons' = setup_control_buttons(FALSE)
  /\ ai_timers' = IF side = "black" THEN ai_timers + 1 ELSE ai_timers
  /\ ai_timers' <= MaxAiTimers

\* new_game with the side the player has at the call.
new_game(side) ==
  IF ai_thinking
  THEN UNCHANGED <<chess_board, move_history, board_history, evaluations,
                   best_moves, selected_square, last_move, current_turn,
                   game_over, review_mode, current_review_move, ai_thinking,
                   buttons, ai_timers, before_ply>>
  ELSE /\ reset_game
       /\ buttons' = setup_control_buttons(FALSE)
       /\ ai_timers' = IF side = "black" THEN ai_timers + 1 ELSE ai_timers
       /\ ai_timers' <= MaxAiTimers

NewGame ==
  /\ UNCHANGED non_game_vars
  /\ UNCHANGED <<ollama_cache, ai_ret, board_lock>>
  /\ gui_runs
  /\ new_game(player_side)
  /\ UNCHANGED <<player_side, engine, review_timers, worker, ret, engine_errors>>

SwitchSide ==
  /\ UNCHANGED non_game_vars
  /\ UNCHANGED <<ollama_cache, ai_ret, board_lock>>
  /\ gui_runs
  /\ IF ai_thinking
     THEN UNCHANGED <<chess_board, move_history, board_history, evaluations,
                      best_moves, selected_square, last_move, current_turn,
                      game_over, review_mode, current_review_move, ai_thinking,
                      buttons, ai_timers, before_ply, player_side>>
     ELSE /\ player_side' = Opp(player_side)
          /\ new_game(player_side')
  /\ UNCHANGED <<engine, review_timers, worker, ret, engine_errors>>

\* ---- load_pgn ---------------------------------------------------------------

\* What the file dialog and chess.pgn.read_game come to: no file chosen, a
\* file that holds no game, or a game with its White header and main line.
PgnLine == <<Mv(5, 1, 5, 2), Mv(4, 6, 4, 4), Mv(6, 1, 6, 3), Mv(3, 7, 7, 3)>>
PgnGames ==
  {[kind |-> "game", white |-> w, moves |-> SubSeq(PgnLine, 1, n)] :
     w \in {"Player", "AI"}, n \in {0, 1, Len(PgnLine)}}
PgnFiles ==
  {[kind |-> "cancelled", white |-> "", moves |-> <<>>],
   [kind |-> "empty", white |-> "", moves |-> <<>>]} \cup PgnGames

\* One turn of the loop over the main line: the move pushed and appended,
\* with the evaluation get_position_evaluation appends.
pgn_appended(st, move, pushed, ev) ==
  [chess_board |-> pushed,
   move_history |-> Append(st.move_history,
                           [move |-> move, board |-> st.chess_board]),
   board_history |-> Append(st.board_history, pushed),
   evaluations |-> Append(st.evaluations, ev.eval),
   best_moves |-> Append(st.best_moves, ev.best)]
pgn_push(st, move, ok) ==
  pgn_appended(st, move, board_push(st.chess_board, move),
               get_position_evaluation(engine, ApplyCore(st.chess_board.pos, move), ok))

\* The loop over the main line.
RECURSIVE pgn_replay(_, _, _)
pgn_replay(st, moves, ok) ==
  IF moves = <<>> THEN st
  ELSE CHOOSE after \in {pgn_replay(s, Tail(moves), ok) :
                           s \in {pgn_push(st, Head(moves), ok)}} : TRUE

\* load_pgn with the file chosen.  The handler takes board_lock and calls
\* reset_game, which takes board_lock again.
load_pgn(file, ok) ==
  LET outer == acquire(board_lock, "gui")
      inner == acquire(outer, "gui")
      loaded == pgn_replay([chess_board |-> NewBoard, move_history |-> <<>>,
                            board_history |-> <<NewBoard>>,
                            evaluations |-> <<Pawns(0)>>, best_moves |-> <<NoMove>>],
                           file.moves, ok)
  IN IF ai_thinking \/ file.kind # "game"
     THEN UNCHANGED <<chess_board, move_history, board_history, evaluations,
                      best_moves, selected_square, last_move, current_turn,
                      game_over, review_mode, current_review_move, ai_thinking,
                      player_side, buttons, before_ply, engine_errors, board_lock>>
     ELSE IF "gui" \in inner.waiting
     THEN /\ board_lock' = inner
          /\ UNCHANGED <<chess_board, move_history, board_history, evaluations,
                         best_moves, selected_square, last_move, current_turn,
                         game_over, review_mode, current_review_move, ai_thinking,
                         player_side, buttons, before_ply, engine_errors>>
     ELSE /\ chess_board' = loaded.chess_board
          /\ move_history' = loaded.move_history
          /\ board_history' = loaded.board_history
          /\ evaluations' = loaded.evaluations
          /\ best_moves' = loaded.best_moves
          /\ selected_square' = NoSquare
          /\ last_move' = <<>>
          /\ current_turn' = "white"
          /\ game_over' = TRUE
          /\ ai_thinking' = FALSE
          /\ player_side' = IF file.white = "Player" THEN "white" ELSE "black"
          /\ review_mode' = TRUE
          /\ current_review_move' = Len(loaded.move_history)
          /\ buttons' = setup_control_buttons(TRUE)
          /\ before_ply' = <<>>
          /\ engine_errors' = IF engine # "none" /\ ~ok /\ file.moves # <<>>
                               THEN engine_errors + 1 ELSE engine_errors
          /\ board_lock' = release(release(inner))

\* The Load PGN button, pressed with at most MaxPliesAtLoad moves played.
MaxPliesAtLoad == 0
LoadPgn ==
  /\ UNCHANGED non_game_vars
  /\ UNCHANGED <<ollama_cache, ai_ret>>
  /\ gui_runs
  /\ Len(move_history) <= MaxPliesAtLoad
  /\ \E file \in PgnFiles, ok \in AnalyseOutcomes : load_pgn(file, ok)
  /\ UNCHANGED <<engine, ai_timers, review_timers, worker, ret>>

\* ---- the AI turn -----------------------------------------------------------

OpeningPlies == 10
transposition_table_size == 1000

\* ai_move's test without the comparison of current_turn with player_side.
ai_move_refused_any_turn == game_over \/ review_mode \/ ai_thinking

\* The test at the head of ai_move: the callback returns at once.
ai_move_refused ==
  game_over \/ current_turn = player_side \/ review_mode \/ ai_thinking

\* ai_move, run by a root.after timer: starts the get_ai_move thread.
AiMoveTimer ==
  /\ UNCHANGED non_game_vars
  /\ UNCHANGED <<ollama_cache, ai_ret, board_lock>>
  /\ gui_runs
  /\ ai_timers > 0
  /\ ai_timers' = ai_timers - 1
  /\ IF ai_move_refused
     THEN UNCHANGED <<ai_thinking, worker>>
     ELSE /\ Len(move_history) < MaxPlies
          /\ ai_thinking' = TRUE
          /\ worker' = [state |-> "thinking", move |-> NoMove]
  /\ UNCHANGED <<chess_board, move_history, board_history, evaluations,
                 best_moves, selected_square, last_move, current_turn,
                 game_over, review_mode, current_review_move, player_side,
                 engine, buttons, review_timers, ret, engine_errors, before_ply>>

LegalInputs(pos) == {m \in MoveInputs : is_legal(pos, m)}

\* ---- functools.lru_cache around cached_ollama_move -----------------------

\* chess_board.fen(), the key of the cache: the signature and the two counters.
fen_key(pos) ==
  [sig |-> Signature(pos), halfmove |-> pos.halfmove, fullmove |-> pos.fullmove]

\* The cache: its entries from the least to the most recently used.
lru_new(maxsize) == [maxsize |-> maxsize, order |-> <<>>]
lru_has(c, key) == \E i \in 1..Len(c.order) : c.order[i].key = key
lru_index(c, key) == CHOOSE i \in 1..Len(c.order) : c.order[i].key = key
lru_value(c, key) == c.order[lru_index(c, key)].value
RemoveAt(q, i) == SubSeq(q, 1, i - 1) \o SubSeq(q, i + 1, Len(q))

\* A hit: the entry becomes the most recently used.
lru_hit(c, key) ==
  [c EXCEPT !.order = Append(RemoveAt(@, lru_index(c, key)), c.order[lru_index(c, key)])]

\* The cache when full drops its most recently used entry for the new one.
lru_store_evict_newest(c, key, value) ==
  [c EXCEPT !.order = Append(IF Len(@) >= c.maxsize THEN DropLast(@) ELSE @,
                             [key |-> key, value |-> value])]

\* A miss: the result is stored; a full cache drops its oldest entry first.
lru_store(c, key, value) ==
  [c EXCEPT !.order = Append(IF Len(@) >= c.maxsize THEN Tail(@) ELSE @,
                             [key |-> key, value |-> value])]

\* A call through the wrapper: the cached value, or the value computed.
lru_call(c, key, computed) ==
  IF lru_has(c, key)
  THEN [cache |-> lru_hit(c, key), value |-> lru_value(c, key), hit |-> TRUE]
  ELSE [cache |-> lru_store(c, key, computed), value |-> computed, hit |-> FALSE]

\* ---- cached_ollama_move ----------------------------------------------------

MaxAttempts == 3

\* What one ollama.generate call can come to: it raises, its text has no
\* "Move: <uci>" line, or it names a move.
Responses(moves) ==
  {[kind |-> "exception", move |-> NoMove], [kind |-> "bad_format", move |-> NoMove]}
    \cup {[kind |-> "move", move |-> m] : m \in moves}

RECURSIVE Power(_, _)
Power(b, n) == IF n = 0 THEN 1 ELSE b * Power(b, n - 1)

\* The loop over attempts from attempt on: the move returned (NoMove for
\* None) and the log of requests and sleeps.  `continue` skips the sleep.
RECURSIVE ollama_attempts(_, _, _, _)
ollama_attempts(pos, script, attempt, log) ==
  IF attempt >= MaxAttempts THEN [move |-> NoMove, log |-> log]
  ELSE LET r == script[attempt + 1]
           asked == Append(log, [ev |-> "request", n |-> attempt])
           slept == IF attempt < MaxAttempts - 1
                    THEN Append(asked, [ev |-> "sleep", n |-> Power(2, attempt)])
                    ELSE asked
       IN IF r.kind = "bad_format"
          THEN ollama_attempts(pos, script, attempt + 1, asked)
          ELSE IF r.kind = "move" /\ is_legal(pos, r.move)
          THEN [move |-> r.move, log |-> asked]
          ELSE ollama_attempts(pos, script, attempt + 1, slept)

cached_ollama_move(pos, script) == ollama_attempts(pos, script, 0, <<>>)

\* get_ollama_move: the cached call, its move checked against the board.
checked_result(pos, call) ==
  [move |-> IF call.value # NoMove /\ is_legal(pos, call.value)
            THEN call.value ELSE NoMove,
   cache |-> call.cache, hit |-> call.hit]

get_ollama_move(pos, lru, script) ==
  checked_result(pos, lru_call(lru, fen_key(pos), cached_ollama_move(pos, script).move))

\* get_ai_move once the book and get_ollama_move have answered (o is what
\* get_ollama_move returns when it is called): the opening book's move (not
\* checked against the board), else Ollama's, else Stockfish's when an engine
\* is loaded, else a random legal move; with the sources consulted, in order,
\* and whether generate_ollama_explanation is then called for the move found.
source_result(book_asked, book_move, o, lru, eng, stockfish, random) ==
  LET ask_ollama == book_move = NoMove
      failed == ask_ollama /\ o.move = NoMove
      ask_stockfish == failed /\ eng # "none"
      ask_random == failed /\ (eng = "none" \/ stockfish = NoMove)
      move == IF ~ask_ollama THEN book_move
              ELSE IF ~failed THEN o.move
              ELSE IF ask_random THEN random
              ELSE stockfish
  IN [move |-> move,
      consulted |-> (IF book_asked THEN <<"book">> ELSE <<>>)
                      \o (IF ask_ollama THEN <<"ollama">> ELSE <<>>)
                      \o (IF ask_stockfish THEN <<"stockfish">> ELSE <<>>)
                      \o (IF ask_random THEN <<"random">> ELSE <<>>),
      explained |-> move # NoMove,
      cache |-> IF ask_ollama THEN o.cache ELSE lru]

\* The opening book consulted whatever the number of plies played.
get_ai_move_book_always(plies, pos, lru, eng, book, script, stockfish, random) ==
  source_result(TRUE, book, get_ollama_move(pos, lru, script), lru, eng,
                stockfish, random)

\* get_ai_move with plies moves played.
get_ai_move(plies, pos, lru, eng, book, script, stockfish, random) ==
  source_result(plies < OpeningPlies,
                IF plies < OpeningPlies THEN book ELSE NoMove,
                get_ollama_move(pos, lru, script), lru, eng, stockfish, random)

\* The script of Ollama's answers the game is run with: every answer names a
\* legal move of the inputs, or no answer has the format where the inputs hold
\* no legal move; and the last ply at which the opening book has no entry, so
\* that Ollama is asked.
MaxBooklessPly == 0
GameScripts(pos) ==
  IF LegalInputs(pos) = {}
  THEN {[i \in 1..MaxAttempts |-> [kind |-> "bad_format", move |-> NoMove]]}
  ELSE {[i \in 1..MaxAttempts |->
           [kind |-> "move", move |-> CHOOSE m \in LegalInputs(pos) : TRUE]]}

RandomInputs(pos) ==
  IF LegalInputs(pos) = {} THEN {NoMove} ELSE LegalInputs(pos)

GetAiMove ==
  /\ UNCHANGED non_game_vars
  /\ UNCHANGED board_lock
  /\ board_lock.held_by = "none"
  /\ worker.state = "thinking"
  /\ \E book \in MoveInputs \cup {NoMove},
        script \in GameScripts(chess_board.pos),
        stockfish \in RandomInputs(chess_board.pos) \cup {NoMove},
        random \in RandomInputs(chess_board.pos) :
       \E r \in {get_ai_move(Len(move_history), chess_board.pos, ollama_cache,
                              engine, book, script, stockfish, random)} :
          /\ book = NoMove => Len(move_history) <= MaxBooklessPly
          /\ worker' = [state |-> "scheduled", move |-> r.move]
          /\ ollama_cache' = r.cache
  /\ UNCHANGED <<chess_board, move_history, board_history, evaluations,
                 best_moves, selected_square, last_move, current_turn,
                 game_over, review_mode, current_review_move, ai_thinking,
                 player_side, engine, buttons, ai_timers, review_timers, ret,
                 engine_errors, before_ply, ai_ret>>

\* execute_move with ai_thinking cleared only once the move has been made.
execute_move_thinking_until_moved(move, ok) ==
  /\ IF move # NoMove
     THEN /\ make_move(move, ok)
          /\ ai_thinking' = ~ret'.val
          /\ LET end == check_game_end(chess_board', game_over, review_timers)
             IN IF ret'.val
                THEN /\ game_over' = end.game_over
                     /\ review_timers' = end.review_timers
                     /\ review_timers' <= MaxTimers
                ELSE UNCHANGED <<game_over, review_timers>>
     ELSE UNCHANGED <<chess_board, move_history, board_history, evaluations,
                      best_moves, current_turn, last_move, before_ply, ret, engine_errors,
                      game_over, review_timers, ai_thinking>>

\* execute_move, run by root.after(0, ..) on the GUI thread.
execute_move(move, ok) ==
  /\ ai_thinking' = FALSE
  /\ IF move # NoMove
     THEN /\ make_move(move, ok)
          /\ LET end == check_game_end(chess_board', game_over, review_timers)
             IN IF ret'.val
                THEN /\ game_over' = end.game_over
                     /\ review_timers' = end.review_timers
                     /\ review_timers' <= MaxTimers
                ELSE UNCHANGED <<game_over, review_timers>>
     ELSE UNCHANGED <<chess_board, move_history, board_history, evaluations,
                      best_moves, current_turn, last_move, before_ply, ret, engine_errors,
                      game_over, review_timers>>

ExecuteMove ==
  /\ UNCHANGED non_game_vars
  /\ UNCHANGED <<ollama_cache, ai_ret, board_lock>>
  /\ gui_runs
  /\ worker.state = "scheduled"
  /\ \E ok \in AnalyseOutcomes : execute_move(worker.move, ok)
  /\ worker' = [state |-> "idle", move |-> NoMove]
  /\ UNCHANGED <<selected_square, review_mode, current_review_move,
                 player_side, engine, buttons, ai_timers>>

\* ---- update_eval_bar ----------------------------------------------------------

\* What update_eval_bar puts on the screen: the label (the score it read, 0.00
\* when current_review_move is 0) and the height of the bar above or below
\* the middle line, a score in pawns being kept within -5 .. 5 for the bar.
MateBar == 40
BarLimit == 5
update_eval_bar ==
  IF evaluations = <<>> \/ current_review_move = 0
  THEN [label |-> Pawns(0), bar |-> 0]
  ELSE LET eval_index == MinOf(current_review_move - 1, Len(evaluations) - 1)
           eval_score == evaluations[eval_index + 1]
           score == IF eval_score.v > BarLimit THEN BarLimit
                    ELSE IF eval_score.v < 0 - BarLimit THEN 0 - BarLimit
                    ELSE eval_score.v
       IN IF eval_score.kind = "mate"
          THEN [label |-> eval_score, bar |-> MateBar]
          ELSE [label |-> eval_score, bar |-> (score * 100) \div 10]

\* ---- the state after construction ------------------------------------------

GameInit ==
  /\ chess_board = NewBoard
  /\ move_history = <<>>
  /\ board_history = <<NewBoard>>
  /\ evaluations = <<Pawns(0)>>
  /\ best_moves = <<NoMove>>
  /\ selected_square = NoSquare
  /\ last_move = <<>>
  /\ current_turn = "white"
  /\ game_over = FALSE
  /\ review_mode = FALSE
  /\ current_review_move = 0
  /\ ai_thinking = FALSE
  /\ player_side = "white"
  /\ engine \in {"loaded", "none"}
  /\ buttons = "play"
  /\ ai_timers = 0
  /\ review_timers = 0
  /\ worker = [state |-> "idle", move |-> NoMove]
  /\ ret = [op |-> "none", val |-> FALSE]
  /\ engine_errors = 0
  /\ before_ply = <<>>
  /\ ollama_cache = lru_new(transposition_table_size)
  /\ ai_ret = [op |-> "none"]
  /\ board_lock = FreeLock

GameIdle == GameInit /\ engine = "none"

GameNext ==
  \/ OnClick
  \/ UndoMove
  \/ Resign
  \/ EnterReviewTimer
  \/ ExitReview
  \/ PrevMove
  \/ NextMove
  \/ NewGame
  \/ SwitchSide
  \/ LoadPgn
  \/ AiMoveTimer
  \/ GetAiMove
  \/ ExecuteMove

(***************************************************************************)
(* Direct calls of the AI worker's functions, one call per step, with the  *)
(* arguments and the result of the last call kept in ai_ret.               *)
(***************************************************************************)

\* ---- calls through the lru_cache wrapper ------------------------------------

\* Positions of different games in which the AI, playing black, is asked for
\* its second move: white has pushed one pawn two squares and another pawn
\* one square, black has answered the first with a pawn or a knight move.
BlackReplies ==
  [b \in 0..19 |->
     IF b < 8 THEN Mv(b, 6, b, 5)
     ELSE IF b < 16 THEN Mv(b - 8, 6, b - 8, 4)
     ELSE IF b = 16 THEN Mv(1, 7, 0, 5)
     ELSE IF b = 17 THEN Mv(1, 7, 2, 5)
     ELSE IF b = 18 THEN Mv(6, 7, 5, 5)
     ELSE Mv(6, 7, 7, 5)]

CachedPosition(n) ==
  LET i == n - 1
      f1 == i % 8
      f2 == (f1 + 1 + ((i \div 8) % 7)) % 8
      reply == BlackReplies[(i \div 56) % 20]
  IN ApplyCore(ApplyCore(ApplyCore(InitialPosition, Mv(f1, 1, f1, 3)), reply),
               Mv(f2, 1, f2, 2))

\* The calls made: first one call for each of the WarmUp positions, which
\* leaves the cache one entry short of full, then MaxCacheCalls calls, each
\* with one of the OldKeys positions stored first or one of the NewKeys
\* positions not yet stored.
MaxCacheCalls == 4
OldKeys == 2
NewKeys == 2
WarmUp == transposition_table_size - 1
CachedPositions == [n \in 1..WarmUp + NewKeys |-> CachedPosition(n)]

\* Ollama's answers in these calls: the king's knight to f6.
KnightScript == [i \in 1..MaxAttempts |-> [kind |-> "move", move |-> Mv(6, 7, 5, 5)]]

\* The positions the function has been called with, from the least to the
\* most recently used.
used_now(recent, n) ==
  Append(SelectSeq(recent, LAMBDA x : x # n), n)

\* get_ollama_move called for position n: the cache and the record of the
\* calls after it.
call_record(st, n, r) ==
  [cache |-> r.cache,
   ret |-> [op |-> "get_ollama_move", calls |-> st.ret.calls + 1,
            position |-> n, move |-> r.move, hit |-> r.hit,
            recent |-> used_now(st.ret.recent, n)]]

call_get_ollama_move(st, n) ==
  call_record(st, n, get_ollama_move(CachedPositions[n], st.cache, KnightScript))

\* The calls for the positions lo..hi, in turn: those of the first half, then
\* from the state s they leave those of the second half.
RECURSIVE call_each(_, _, _)
call_each(st, lo, hi) ==
  IF lo > hi THEN st
  ELSE IF lo = hi THEN call_get_ollama_move(st, lo)
  ELSE CHOOSE after \in {call_each(s, (lo + hi) \div 2 + 1, hi) :
                            s \in {call_each(st, lo, (lo + hi) \div 2)}} : TRUE

CallCachedOllamaMove ==
  /\ UNCHANGED non_game_vars
  /\ UNCHANGED played_vars
  /\ UNCHANGED board_lock
  /\ ai_ret.op \in {"none", "get_ollama_move"}
  /\ LET before == IF ai_ret.op = "none"
                   THEN [op |-> "none", calls |-> 0, recent |-> <<>>]
                   ELSE ai_ret
     IN \E lo \in IF before.calls = 0 THEN {1}
                  ELSE (1..OldKeys) \cup (WarmUp + 1..WarmUp + NewKeys) :
          LET hi == IF before.calls = 0 THEN WarmUp ELSE lo
              st == call_each([cache |-> ollama_cache, ret |-> before], lo, hi)
          IN /\ before.calls < WarmUp + MaxCacheCalls
             /\ ollama_cache' = st.cache
             /\ ai_ret' = st.ret

\* ---- calls of cached_ollama_move, past the wrapper ---------------------------

\* The moves Ollama names for the starting position: e2e4, legal, and e2e5.
AttemptMoves == {Mv(4, 1, 4, 3), Mv(4, 1, 4, 4)}

CallOllamaAttempts ==
  /\ UNCHANGED non_game_vars
  /\ UNCHANGED played_vars
  /\ UNCHANGED board_lock
  /\ UNCHANGED ollama_cache
  /\ ai_ret.op = "none"
  /\ \E script \in [1..MaxAttempts -> Responses(AttemptMoves)] :
       LET r == cached_ollama_move(chess_board.pos, script)
       IN ai_ret' = [op |-> "cached_ollama_move", script |-> script,
                     move |-> r.move, log |-> r.log]

\* ---- get_best_move (src/src/chess_engine.py, src/src/chess_bot.py) ----------

\* Move texts: what board.parse_san reads them as.  "--" is the notation of
\* the null move, which parse_san returns without raising; a text that is no
\* notation raises InvalidMoveError; a notation that no legal move or more
\* than one legal move answers raises IllegalMoveError or AmbiguousMoveError.
NullMove == Mv(0, 0, 0, 0)
SanTexts == {"e4", "e5", "Nf3", "Nd2", "--", "good"}
SanNotations == {"e4", "e5", "Nf3", "Nd2"}
SanKind(san) == IF san \in {"Nf3", "Nd2"} THEN "N" ELSE "P"
SanTarget(san) ==
  CASE san = "e4" -> SqAt(4, 3)
    [] san = "e5" -> SqAt(4, 4)
    [] san = "Nf3" -> SqAt(5, 2)
    [] san = "Nd2" -> SqAt(3, 1)

parse_san(pos, san) ==
  IF san = "--" THEN [raised |-> FALSE, move |-> NullMove]
  ELSE IF san \notin SanNotations THEN [raised |-> TRUE, move |-> NoMove]
  ELSE LET found == {m \in legal_moves(pos) :
                       /\ KindOf(pos.grid[m.from]) = SanKind(san)
                       /\ m.to = SanTarget(san)
                       /\ m.promo = Empty}
       IN IF Cardinality(found) = 1
          THEN [raised |-> FALSE, move |-> CHOOSE m \in found : TRUE]
          ELSE [raised |-> TRUE, move |-> NoMove]

\* The response text, as its lines of words: empty, or a first line ending
\* with the move text, with or without a line of explanation after it.
ResponseTexts ==
  {<<>>} \cup
  UNION {{<<first>>, <<first, <<"because">>>>} :
           first \in UNION {{<<san>>, <<"Move:", san>>} : san \in SanTexts}}

\* What requests.post comes to: it raises, the status is not 200, the body is
\* no JSON with choices[0].text, or the body holds a text.  A request without
\* a key is refused.
ApiOutcomes(api_key) ==
  {[kind |-> "exception", text |-> <<>>], [kind |-> "status", text |-> <<>>]}
    \cup (IF api_key
          THEN {[kind |-> "malformed", text |-> <<>>]}
                 \cup {[kind |-> "text", text |-> t] : t \in ResponseTexts}
          ELSE {})

None == "None"
Returned(move, message, pos) ==
  [raised |-> FALSE, move |-> move, message |-> message, board |-> pos]

\* result.split('\n', 1), lines[0].split()[-1] and lines[1]: the move text
\* and the explanation; no first word raises IndexError.
text_move(text) == text[1][Len(text[1])]
text_explanation(text) == IF Len(text) > 1 THEN text[2] ELSE <<>>

\* ChessEngine.get_best_move(board).
engine_get_best_move(api_key, pos, outcome) ==
  IF ~api_key THEN Returned(None, "API key not set.", pos)
  ELSE IF outcome.kind = "exception" THEN Returned(None, "str(e)", pos)
  ELSE IF outcome.kind = "status" THEN Returned(None, "API error", pos)
  ELSE IF outcome.kind = "malformed" \/ outcome.text = <<>>
  THEN Returned(None, "str(e)", pos)
  ELSE LET move == text_move(outcome.text)
           move_obj == parse_san(pos, move)
       IN IF ~move_obj.raised /\ is_legal(pos, move_obj.move)
          THEN Returned(move, text_explanation(outcome.text), pos)
          ELSE Returned(None, "No valid move found", pos)

\* ChessBot.get_best_move(fen), with self.board the board of that fen.
bot_get_best_move(api_key, pos, outcome) ==
  IF outcome.kind = "exception" THEN Returned(None, "str(e)", pos)
  ELSE IF outcome.kind = "status" THEN Returned(None, "API error", pos)
  ELSE IF outcome.kind = "malformed" \/ outcome.text = <<>>
  THEN Returned(None, "str(e)", pos)
  ELSE LET move == text_move(outcome.text)
       IN IF ~parse_san(pos, move).raised
          THEN Returned(move, text_explanation(outcome.text), pos)
          ELSE Returned(None, "Invalid move suggested", pos)

CallGetBestMove ==
  /\ UNCHANGED non_game_vars
  /\ UNCHANGED played_vars
  /\ UNCHANGED board_lock
  /\ UNCHANGED ollama_cache
  /\ ai_ret.op = "none"
  /\ \E api_key \in BOOLEAN, class \in {"ChessEngine", "ChessBot"} :
       \E outcome \in ApiOutcomes(api_key) :
         ai_ret' = [op |-> "get_best_move", class |-> class,
                    api_key |-> api_key, given |-> chess_board.pos,
                    outcome |-> outcome,
                    result |-> IF class = "ChessEngine"
                               THEN engine_get_best_move(api_key, chess_board.pos, outcome)
                               ELSE bot_get_best_move(api_key, chess_board.pos, outcome)]

\* ---- calls of get_ai_move ----------------------------------------------------

\* A game of twelve plies, 1.e4 e5 2.Nf3 Nc6 3.Bb5 a6 4.Ba4 Nf6 5.O-O Be7
\* 6.Re1 b5: get_ai_move is called after each of its first plies.
OpeningLine ==
  <<Mv(4, 1, 4, 3), Mv(4, 6, 4, 4), Mv(6, 0, 5, 2), Mv(1, 7, 2, 5),
    Mv(5, 0, 1, 4), Mv(0, 6, 0, 5), Mv(1, 4, 0, 3), Mv(6, 7, 5, 5),
    Mv(4, 0, 6, 0), Mv(5, 7, 4, 6), Mv(5, 0, 4, 0), Mv(1, 6, 1, 4)>>

RECURSIVE position_after(_)
position_after(n) ==
  IF n = 0 THEN InitialPosition
  ELSE ApplyCore(position_after(n - 1), OpeningLine[n])

\* What a source gives in the position after n plies: nothing, or the next
\* move of the line.
SourceMoves(n) == {NoMove, OpeningLine[n + 1]}
SourceScripts(n) ==
  {[i \in 1..MaxAttempts |-> [kind |-> "bad_format", move |-> NoMove]],
   [i \in 1..MaxAttempts |-> [kind |-> "move", move |-> OpeningLine[n + 1]]]}

CallGetAiMove ==
  /\ UNCHANGED non_game_vars
  /\ UNCHANGED played_vars
  /\ UNCHANGED board_lock
  /\ ai_ret.op = "none"
  /\ \E n \in 0..Len(OpeningLine) - 1, eng \in {"loaded", "none"} :
       \E book \in SourceMoves(n), script \in SourceScripts(n),
          stockfish \in SourceMoves(n) :
         \E r \in {get_ai_move(n, position_after(n), ollama_cache, eng, book,
                                script, stockfish, OpeningLine[n + 1])} :
            /\ ollama_cache' = r.cache
            /\ ai_ret' = [op |-> "get_ai_move", plies |-> n, engine |-> eng,
                          book |-> book,
                          ollama |-> cached_ollama_move(position_after(n), script).move,
                          stockfish |-> stockfish,
                          random |-> OpeningLine[n + 1],
                          consulted |-> r.consulted, move |-> r.move,
                          explained |-> r.explained]

(***************************************************************************)
(* Part III.  Position import (src/src/browser_helper.py,                  *)
(* src/chess_move_suggester.py)                                            *)
(***************************************************************************)

\* A position notation, split into its fields; the piece placement is split
\* at "/" into rows, each row a sequence of characters.
Fen(rows, turn, castling) ==
  [rows |-> rows, turn |-> turn, castling |-> castling, ep |-> "-",
   halfmove |-> 0, fullmove |-> 1]

STARTING_FEN ==
  Fen(<<<<"r", "n", "b", "q", "k", "b", "n", "r">>,
        <<"p", "p", "p", "p", "p", "p", "p", "p">>,
        <<"8">>, <<"8">>, <<"8">>, <<"8">>,
        <<"P", "P", "P", "P", "P", "P", "P", "P">>,
        <<"R", "N", "B", "Q", "K", "B", "N", "R">>>>, "w", "KQkq")

Digits == <<"1", "2", "3", "4", "5", "6", "7", "8">>
IsDigit(ch) == \E d \in 1..8 : Digits[d] = ch
DigitValue(ch) == CHOOSE d \in 1..8 : Digits[d] = ch
PieceChars == WhitePieces \cup BlackPieces

\* The number of squares a row of the placement field covers.
RECURSIVE row_squares(_)
row_squares(row) ==
  IF row = <<>> THEN 0
  ELSE (IF IsDigit(Head(row)) THEN DigitValue(Head(row)) ELSE 1)
       + row_squares(Tail(row))

\* A row is accepted: digits and piece letters only, no two digits in
\* succession, eight squares.
row_parses(row) ==
  /\ \A i \in 1..Len(row) : IsDigit(row[i]) \/ row[i] \in PieceChars
  /\ \A i \in 1..(Len(row) - 1) : ~(IsDigit(row[i]) /\ IsDigit(row[i + 1]))
  /\ row_squares(row) = 8

CastlingTokens ==
  {"-", "K", "Q", "k", "q", "KQ", "Kk", "Kq", "Qk", "Qq", "kq", "KQk", "KQq",
   "Kkq", "Qkq", "KQkq"}

\* chess.Board(fen) does not raise.
fen_parses(fen) ==
  /\ Len(fen.rows) = 8
  /\ \A r \in 1..8 : row_parses(fen.rows[r])
  /\ fen.turn \in {"w", "b"}
  /\ fen.castling \in CastlingTokens

validate_fen(fen) == IF fen_parses(fen) THEN fen ELSE STARTING_FEN

\* One rank of a board array written as a row of the placement field; `blank`
\* is the mark of an empty square, `empty` the run of empty squares so far.
RECURSIVE rank_to_row(_, _, _)
rank_to_row(rank, blank, empty) ==
  IF rank = <<>> THEN (IF empty > 0 THEN <<Digits[empty]>> ELSE <<>>)
  ELSE IF Head(rank) = blank THEN rank_to_row(Tail(rank), blank, empty + 1)
  ELSE (IF empty > 0 THEN <<Digits[empty]>> ELSE <<>>)
       \o <<Head(rank)>> \o rank_to_row(Tail(rank), blank, 0)

board_array_to_fen(board) ==
  validate_fen(Fen([r \in 1..Len(board) |-> rank_to_row(board[r], "", 0)],
                   "w", "KQkq"))

\* detect_board_corners: the corners, when the image shows a board.
detect_board_corners(image) == IF image.board THEN "found" ELSE "none"

\* The notation detect_board_to_fen builds from the pieces it identifies.
detected_fen(image) ==
  Fen([r \in 1..8 |-> rank_to_row(image.squares[r], ".", 0)], "w", "KQkq")

\* detect_board_to_fen with the detector's corners before the call: the
\* corners after it and the notation returned.
detect_board_to_fen(corners, image) ==
  LET found == IF corners = "none" THEN detect_board_corners(image) ELSE corners
  IN IF found = "none" THEN [corners |-> found, fen |-> STARTING_FEN]
     ELSE IF fen_parses(detected_fen(image))
     THEN [corners |-> found, fen |-> detected_fen(image)]
     ELSE [corners |-> found, fen |-> STARTING_FEN]

\* ---- inputs ----------------------------------------------------------------

\* Rows of a placement field: three that parse, then two digits in
\* succession, seven squares, and a letter that names no piece.
RowInputs ==
  {<<"8">>, <<"4", "k", "3">>, <<"R", "N", "B", "Q", "K", "B", "N", "R">>,
   <<"4", "4">>, <<"7">>, <<"3", "x", "4">>}
MinMiddleRows == 5
MaxMiddleRows == 6
FenInputs ==
  {Fen(<<a>> \o [i \in 1..n |-> <<"8">>] \o <<b>>, t, c) :
     a \in RowInputs, b \in RowInputs, n \in MinMiddleRows..MaxMiddleRows,
     t \in {"w", "b", "x"}, c \in {"KQkq", "-", "KQkx"}}
  \cup {STARTING_FEN}

\* Ranks of the board array construct_fen fills and of the squares the
\* detector classifies.
RankInputs(blank) ==
  {[f \in 1..8 |-> blank],
   [f \in 1..8 |-> IF f = 5 THEN "k" ELSE blank],
   [f \in 1..8 |-> IF f = 5 THEN "K" ELSE IF f = 8 THEN "R" ELSE blank],
   <<"r", "n", "b", "q", "k", "b", "n", "r">>}
BoardInputs(blank) ==
  {<<a>> \o [i \in 1..6 |-> [f \in 1..8 |-> blank]] \o <<b>> :
     a \in RankInputs(blank), b \in RankInputs(blank)}
ImageInputs ==
  {[board |-> found, squares |-> sq] : found \in BOOLEAN, sq \in BoardInputs(".")}

\* ---- actions ---------------------------------------------------------------

\* get_position on lichess: the data-fen attribute goes through validate_fen.
GetPositionFromAttribute ==
  /\ UNCHANGED non_import_vars
  /\ \E fen \in FenInputs :
       import_ret' = [op |-> "validate_fen", malformed |-> ~fen_parses(fen),
                      out |-> validate_fen(fen)]
  /\ UNCHANGED board_corners

\* get_position elsewhere: construct_fen fills an 8x8 array from the piece
\* elements of the page and passes it to board_array_to_fen.
GetPositionFromPieces ==
  /\ UNCHANGED non_import_vars
  /\ \E board \in BoardInputs("") :
       import_ret' = [op |-> "board_array_to_fen", malformed |-> FALSE,
                      out |-> board_array_to_fen(board)]
  /\ UNCHANGED board_corners

DetectBoardToFen ==
  /\ UNCHANGED non_import_vars
  /\ \E image \in ImageInputs :
       LET res == detect_board_to_fen(board_corners, image)
       IN /\ board_corners' = res.corners
          /\ import_ret' = [op |-> "detect_board_to_fen",
                            malformed |-> \/ res.corners = "none"
                                          \/ ~fen_parses(detected_fen(image)),
                            out |-> res.fen]

ImportInit ==
  /\ board_corners = "none"
  /\ import_ret = [op |-> "none", malformed |-> FALSE, out |-> STARTING_FEN]

(***************************************************************************)
(* Part IV.  Position with undo, evaluator and search engine               *)
(***************************************************************************)

\* ---- Position State: apply with a MoveRecord, undo --------------------------

\* The repetition multiset: a set of records [sig, n], one per signature seen.
seen_count(seen, sig) ==
  IF \E e \in seen : e.sig = sig THEN (CHOOSE e \in seen : e.sig = sig).n ELSE 0
seen_add(seen, sig) ==
  {e \in seen : e.sig # sig} \cup {[sig |-> sig, n |-> seen_count(seen, sig) + 1]}
seen_remove(seen, sig) ==
  {e \in seen : e.sig # sig}
    \cup (IF seen_count(seen, sig) > 1
          THEN {[sig |-> sig, n |-> seen_count(seen, sig) - 1]} ELSE {})

\* A Position: the fields of the core and the repetition multiset, which
\* counts the position itself.
PositionOf(pos) ==
  [grid |-> pos.grid, stm |-> pos.stm, castling |-> pos.castling, ep |-> pos.ep,
   halfmove |-> pos.halfmove, fullmove |-> pos.fullmove,
   seen |-> {[sig |-> Signature(pos), n |-> 1]}]

captured_piece(pos, m) ==
  IF is_en_passant(pos, m) THEN pos.grid[SqAt(FileOf(m.to), RankOf(m.from))]
  ELSE pos.grid[m.to]

\* apply(move) -> MoveRecord: the position after the move and the record.
apply(pos, m) ==
  LET after == ApplyCore(pos, m)
  IN [pos |-> [after EXCEPT !.seen = seen_add(pos.seen, Signature(after))],
      record |-> [move |-> m, captured |-> captured_piece(pos, m),
                  castling |-> pos.castling, ep |-> pos.ep,
                  halfmove |-> pos.halfmove]]

\* undo(record): the position before the move of the record.
undo(pos, rec) ==
  LET m == rec.move
      mover == Opp(pos.stm)
      moved == pos.grid[m.to]
      piece == IF m.promo # Empty THEN PieceOf("P", mover) ELSE moved
      was_castling == KindOf(moved) = "K" /\ Abs(FileOf(m.to) - FileOf(m.from)) = 2
      was_en_passant == /\ KindOf(piece) = "P"
                        /\ m.to = rec.ep
                        /\ FileOf(m.to) # FileOf(m.from)
      king_side == FileOf(m.to) > FileOf(m.from)
      rook_from == SqAt(IF king_side THEN 7 ELSE 0, RankOf(m.from))
      rook_to == SqAt(IF king_side THEN 5 ELSE 3, RankOf(m.from))
      captured_on == IF was_en_passant THEN SqAt(FileOf(m.to), RankOf(m.from))
                     ELSE m.to
  IN [grid |-> [sq \in Squares |->
                  IF sq = m.from THEN piece
                  ELSE IF sq = captured_on THEN rec.captured
                  ELSE IF sq = m.to THEN Empty
                  ELSE IF was_castling /\ sq = rook_from THEN pos.grid[rook_to]
                  ELSE IF was_castling /\ sq = rook_to THEN Empty
                  ELSE pos.grid[sq]],
      stm |-> mover,
      castling |-> rec.castling,
      ep |-> rec.ep,
      halfmove |-> rec.halfmove,
      fullmove |-> IF mover = "black" THEN pos.fullmove - 1 ELSE pos.fullmove,
      seen |-> seen_remove(pos.seen, Signature(pos))]

is_threefold_repetition(pos) == seen_count(pos.seen, Signature(pos)) >= 3

\* The Position that apply has produced along the first n moves of a board.
RECURSIVE position_along(_, _)
position_along(b, n) ==
  IF n = 0 THEN PositionOf(IF b.stack = <<>> THEN b.pos ELSE b.stack[1].prev)
  ELSE apply(position_along(b, n - 1), b.stack[n].move).pos

\* ---- Position Evaluator -----------------------------------------------------

PawnValue == 100
KnightValue == 320
BishopValue == 330
RookValue == 500
QueenValue == 900
KingValue == 20000
piece_value(p) ==
  CASE KindOf(p) = "P" -> PawnValue
    [] KindOf(p) = "N" -> KnightValue
    [] KindOf(p) = "B" -> BishopValue
    [] KindOf(p) = "R" -> RookValue
    [] KindOf(p) = "Q" -> QueenValue
    [] KindOf(p) = "K" -> KingValue
    [] OTHER -> 0

\* Weights the evaluator is configured with.
CentreBonus == 10
PawnAdvanceBonus == 5
MobilityWeight == 2
KingShieldPenalty == 15
KingCentrePenalty == 20
OpeningMoveLimit == 20
DoubledPawnPenalty == 25
CheckPenalty == 50
MateScore == 100000
Infinity == 1000000

PiecesOf(pos, c) == {sq \in Squares : IsColor(pos.grid[sq], c)}

material(pos, c) ==
  SumOver({sq \in PiecesOf(pos, c) : KindOf(pos.grid[sq]) # "K"},
          [sq \in Squares |-> piece_value(pos.grid[sq])])

\* The piece-square table of a kind, read from white's side of the board.
piece_square_table(kind) ==
  [sq \in Squares |->
     IF kind \in {"N", "B"}
     THEN CentreBonus * (3 - MaxOf(Abs(2 * FileOf(sq) - 7), Abs(2 * RankOf(sq) - 7)) \div 2)
     ELSE IF kind = "P" THEN PawnAdvanceBonus * (RankOf(sq) - 1)
     ELSE 0]
mirror(sq) == SqAt(FileOf(sq), 7 - RankOf(sq))
piece_square(pos, c) ==
  SumOver(PiecesOf(pos, c),
          [sq \in Squares |->
             piece_square_table(KindOf(pos.grid[sq]))[IF c = "white" THEN sq
                                                       ELSE mirror(sq)]])

legal_move_count(pos, c) ==
  IF c = pos.stm THEN Cardinality(legal_moves(pos))
  ELSE Cardinality(legal_moves([pos EXCEPT !.stm = c, !.ep = NoSquare]))

king_safety(pos, c) ==
  LET k == king_square(pos.grid, c)
      shielded == \E sq \in PiecesOf(pos, c) :
                     KindOf(pos.grid[sq]) = "P" /\ FileOf(sq) = FileOf(k)
  IN (IF shielded THEN 0 ELSE KingShieldPenalty)
       + (IF FileOf(k) \in {3, 4} /\ pos.fullmove < OpeningMoveLimit
          THEN KingCentrePenalty ELSE 0)

doubled_pawns(pos, c) ==
  SumOver(0..7,
          [f \in 0..7 |->
             LET n == Cardinality({sq \in PiecesOf(pos, c) :
                                     KindOf(pos.grid[sq]) = "P" /\ FileOf(sq) = f})
             IN IF n > 1 THEN n - 1 ELSE 0])

side_score(pos, c) ==
  material(pos, c) + piece_square(pos, c) + MobilityWeight * legal_move_count(pos, c)
    - king_safety(pos, c) - DoubledPawnPenalty * doubled_pawns(pos, c)

terminal_score(pos) ==
  LET sign == IF pos.stm = "white" THEN 0 - 1 ELSE 1
  IN IF is_checkmate(pos) THEN sign * MateScore
     ELSE IF is_in_check(pos, pos.stm) THEN sign * CheckPenalty
     ELSE 0

\* The static evaluation: positive favours white.
evaluate(pos) ==
  side_score(pos, "white") - side_score(pos, "black") + terminal_score(pos)

\* ---- Search Engine: move ordering --------------------------------------------

gives_check(pos, m) == is_in_check(ApplyCore(pos, m), Opp(pos.stm))

\* Captures, then checks, then promotions, then the rest.
move_class(pos, m) ==
  IF is_capture(pos, m) THEN 0
  ELSE IF gives_check(pos, m) THEN 1
  ELSE IF m.promo # Empty THEN 2
  ELSE 3

\* Victim value minus attacker value.
capture_gain(pos, m) ==
  piece_value(captured_piece(pos, m)) - piece_value(pos.grid[m.from])

promo_index(k) ==
  CASE k = "Q" -> 1 [] k = "R" -> 2 [] k = "B" -> 3 [] k = "N" -> 4 [] OTHER -> 0

\* The key a policy sorts by; moves with equal class stay in generation order.
Policies == {"captures_first", "generation"}
order_key(pos, m, pol) ==
  IF pol = "captures_first"
  THEN <<move_class(pos, m),
         IF is_capture(pos, m) THEN 0 - capture_gain(pos, m) ELSE 0,
         m.from, m.to, promo_index(m.promo)>>
  ELSE <<m.from, m.to, promo_index(m.promo)>>

RECURSIVE key_less(_, _)
key_less(a, b) ==
  IF a = <<>> THEN FALSE
  ELSE \/ Head(a) < Head(b)
       \/ Head(a) = Head(b) /\ key_less(Tail(a), Tail(b))

RECURSIVE sort_moves(_, _, _)
sort_moves(pos, moves, pol) ==
  IF moves = {} THEN <<>>
  ELSE LET first == CHOOSE m \in moves :
                      \A n \in moves \ {m} :
                         key_less(order_key(pos, m, pol), order_key(pos, n, pol))
       IN <<first>> \o sort_moves(pos, moves \ {first}, pol)

order_moves(pos, pol) == sort_moves(pos, legal_moves(pos), pol)

\* ---- Search Engine: transposition cache -------------------------------------


EmptyCache == [entries |-> {}, order |-> <<>>]
cache_has(c, sig) == \E e \in c.entries : e.sig = sig
cache_entry(c, sig) == CHOOSE e \in c.entries : e.sig = sig

\* The lookup that takes any entry of the signature.
cache_hit_any_depth(c, sig, depth) == cache_has(c, sig)

\* An entry may stand in for a search of the requested depth.
cache_hit(c, sig, depth) ==
  cache_has(c, sig) /\ cache_entry(c, sig).depth_searched >= depth

\* The recency list with sig moved to its most recent end.
touch(order, sig) ==
  LET other(x) == x # sig IN SelectSeq(order, other) \o <<sig>>

cache_touch(c, sig) == [c EXCEPT !.order = touch(@, sig)]

\* Store or update the entry of sig, then evict the least recently used
\* entry when the capacity is exceeded.
cache_store(c, sig, score, best_move, depth) ==
  LET entries == {e \in c.entries : e.sig # sig}
                   \cup {[sig |-> sig, score |-> score, best_move |-> best_move,
                          depth_searched |-> depth]}
      order == touch(c.order, sig)
  IN IF Len(order) > transposition_table_size
     THEN [entries |-> {e \in entries : e.sig # Head(order)}, order |-> Tail(order)]
     ELSE [entries |-> entries, order |-> order]

\* ---- Search Engine: one call of search --------------------------------------

terminal(pos) ==
  \/ is_checkmate(pos)
  \/ is_stalemate(pos)
  \/ is_insufficient_material(pos)
  \/ is_threefold_repetition(pos)

is_leaf(pos, depth) == depth = 0 \/ terminal(pos)

\* A node maximizes when the side to move is the side the search is for.
maximizing(pos, side) == pos.stm = side

NoRecord ==
  [move |-> NoMove, captured |-> Empty, castling |-> {}, ep |-> NoSquare,
   halfmove |-> 0]

\* The frame of a call: its arguments, its loop over the ordered moves, the
\* record of the move applied for the child in progress, and (history) the
\* position at entry.
NewFrame(depth, alpha, beta, pos) ==
  [depth |-> depth, alpha |-> alpha, beta |-> beta, moves |-> <<>>, idx |-> 0,
   best_score |-> 0, best_move |-> NoMove, record |-> NoRecord, cut |-> FALSE,
   entry |-> pos]

Top == frames[Len(frames)]
ReplaceTop(f) == [frames EXCEPT ![Len(frames)] = f]

\* The frame after the child for moves[idx] returned score.
after_child(frame, score, max) ==
  LET better == IF max THEN score > frame.best_score ELSE score < frame.best_score
      alpha == IF max THEN MaxOf(frame.alpha, score) ELSE frame.alpha
      beta == IF max THEN frame.beta ELSE MinOf(frame.beta, score)
  IN [frame EXCEPT !.best_score = IF better THEN score ELSE @,
                   !.best_move = IF better THEN frame.moves[frame.idx] ELSE @,
                   !.alpha = alpha,
                   !.beta = beta,
                   !.idx = @ + 1,
                   !.cut = beta <= alpha]

\* The cutoff taken as soon as the child's score is known, before the undo.
return_to_parent_cutoff_first(pos, frame, score, side) ==
  LET undone == undo(pos, frame.record)
      updated == after_child(frame, score, maximizing(undone, side))
  IN [position |-> IF updated.cut THEN pos ELSE undone, frame |-> updated]

\* The caller's part after the recursive call: undo, then alpha/beta update
\* and cutoff test.
return_to_parent(pos, frame, score, side) ==
  LET undone == undo(pos, frame.record)
  IN [position |-> undone,
      frame |-> after_child(frame, score, maximizing(undone, side))]

\* ---- Search Engine: the calls, step by step --------------------------------

MaxDepth == 3
MaxDepthSum == 5

\* White: Ka1 Pe5; black: Kh8 Pd7; white to move.
EpRoot ==
  PositionOf([grid |-> GridOf((SqAt(0, 0) :> "K") @@ (SqAt(4, 4) :> "P")
                              @@ (SqAt(7, 7) :> "k") @@ (SqAt(3, 6) :> "p")),
              stm |-> "white", castling |-> {}, ep |-> NoSquare, halfmove |-> 0,
              fullmove |-> 30])

\* The position two plies on: 1.Kb1 Kg8.
EpGrand == apply(apply(EpRoot, Mv(0, 0, 1, 0)).pos, Mv(7, 7, 6, 7)).pos

\* White: Ke1 Rh1 Ph2; black: Ka8 Nf2; white to move and may castle, the
\* knight may take the rook on its home square.
CastleRoot ==
  PositionOf([grid |-> GridOf((SqAt(4, 0) :> "K") @@ (SqAt(7, 0) :> "R")
                              @@ (SqAt(7, 1) :> "P") @@ (SqAt(0, 7) :> "k")
                              @@ (SqAt(5, 1) :> "n")),
              stm |-> "white", castling |-> {"K"}, ep |-> NoSquare, halfmove |-> 4,
              fullmove |-> 30])

\* The sets of positions a caller asks searches for, and the one of a set
\* the game reaches first.
SearchRoots == {{EpRoot, EpGrand}, {CastleRoot}}
FirstRoot(rs) == CHOOSE r \in rs : \A q \in rs : r.halfmove <= q.halfmove

\* What a move undone was, told from the position it was made in.
move_kinds(pos, m) ==
  (IF is_capture(pos, m) THEN {"capture"} ELSE {})
    \cup (IF is_en_passant(pos, m) THEN {"en_passant"} ELSE {})
    \cup (IF is_castling(pos, m) THEN {"castling"} ELSE {})
    \cup (IF pos.castling \cap rights_lost(pos, m) = {} THEN {}
          ELSE IF KindOf(pos.grid[m.from]) = "K" THEN {"right_lost_king_moved"}
          ELSE IF KindOf(pos.grid[m.from]) = "R" THEN {"right_lost_rook_moved"}
          ELSE {"right_lost_rook_taken"})

\* A call returns value to its caller: the frame is popped; the outermost
\* call ends the search and its score is recorded, with whether an entry
\* deeper than requested was returned in its course.
Return(value) ==
  /\ sret' = [score |-> value.score, best_move |-> value.best_move,
              entry |-> Top.entry]
  /\ frames' = SubSeq(frames, 1, Len(frames) - 1)
  /\ IF Len(frames) = 1
     THEN /\ pc' = "done"
          /\ results' = results \cup {[root |-> Signature(root.pos),
                                       depth |-> root.depth, fresh |-> root.fresh,
                                       deeper |-> trail'.deeper,
                                       score |-> value.score]}
     ELSE /\ pc' = "returned"
          /\ UNCHANGED results

\* search_best_move: the outermost call, with the full window.
StartSearch ==
  /\ UNCHANGED non_search_vars
  /\ pc \in {"idle", "done"}
  /\ \E r \in roots, d \in 1..MaxDepth :
       /\ searches + d <= MaxDepthSum
       /\ position' = r
       /\ root' = [pos |-> r, depth |-> d, fresh |-> cache.entries = {}]
       /\ frames' = <<NewFrame(d, 0 - Infinity, Infinity, r)>>
       /\ searches' = searches + d
  /\ pc' = "enter"
  /\ trail' = [cut |-> FALSE, undone |-> {}, hit |-> FALSE, deeper |-> FALSE]
  /\ UNCHANGED <<cache, sret, roots, policy, last_lookup, results>>

\* Leaf or terminal node: the static evaluation and no move.
Leaf ==
  /\ UNCHANGED non_search_vars
  /\ pc = "enter"
  /\ is_leaf(position, Top.depth)
  /\ UNCHANGED <<position, cache, root, roots, policy, searches, last_lookup, trail>>
  /\ Return([score |-> evaluate(position), best_move |-> NoMove])

\* The cached entry is returned in place of a search.
CacheHit ==
  /\ UNCHANGED non_search_vars
  /\ pc = "enter"
  /\ ~is_leaf(position, Top.depth)
  /\ cache_hit(cache, Signature(position), Top.depth)
  /\ LET e == cache_entry(cache, Signature(position))
     IN /\ trail' = [trail EXCEPT !.hit = TRUE,
                                  !.deeper = @ \/ e.depth_searched > Top.depth]
        /\ Return([score |-> e.score, best_move |-> e.best_move])
        /\ last_lookup' = [last_lookup EXCEPT !.requested = Top.depth,
                                              !.depth_searched = e.depth_searched,
                                              !.hit = TRUE]
  /\ cache' = cache_touch(cache, Signature(position))
  /\ UNCHANGED <<position, root, roots, policy, searches>>

\* The node is expanded: its legal moves are ordered.
Expand ==
  /\ UNCHANGED non_search_vars
  /\ pc = "enter"
  /\ ~is_leaf(position, Top.depth)
  /\ ~cache_hit(cache, Signature(position), Top.depth)
  /\ frames' = ReplaceTop([Top EXCEPT
                             !.moves = order_moves(position, policy),
                             !.idx = 1,
                             !.best_score = IF maximizing(position, root.pos.stm)
                                            THEN 0 - Infinity ELSE Infinity])
  /\ last_lookup' = [last_lookup EXCEPT
                       !.refused = @ \/ cache_has(cache, Signature(position))]
  /\ pc' = "loop"
  /\ UNCHANGED <<position, cache, sret, root, roots, policy, searches, results, trail>>

\* The next move is applied and search is called for the child.
Descend ==
  /\ UNCHANGED non_search_vars
  /\ pc = "loop"
  /\ ~Top.cut
  /\ Top.idx <= Len(Top.moves)
  /\ LET a == apply(position, Top.moves[Top.idx])
     IN /\ position' = a.pos
        /\ frames' = Append(ReplaceTop([Top EXCEPT !.record = a.record]),
                            NewFrame(Top.depth - 1, Top.alpha, Top.beta, a.pos))
  /\ pc' = "enter"
  /\ UNCHANGED <<cache, sret, root, roots, policy, searches, last_lookup, results,
                 trail>>

\* The child has returned: the move is undone and the result taken in.
ReturnToParent ==
  /\ UNCHANGED non_search_vars
  /\ pc = "returned"
  /\ LET r == return_to_parent(position, Top, sret.score, root.pos.stm)
     IN /\ position' = r.position
        /\ frames' = ReplaceTop(r.frame)
  /\ trail' = [trail EXCEPT !.undone = @ \cup move_kinds(position', Top.record.move)]
  /\ pc' = "loop"
  /\ UNCHANGED <<cache, sret, root, roots, policy, searches, last_lookup, results>>

\* The loop has ended, by exhaustion or by cutoff: the node's result is
\* stored in the cache and returned.
FinishNode ==
  /\ UNCHANGED non_search_vars
  /\ pc = "loop"
  /\ Top.cut \/ Top.idx > Len(Top.moves)
  /\ cache' = cache_store(cache, Signature(position), Top.best_score,
                          Top.best_move, Top.depth)
  /\ trail' = [trail EXCEPT !.cut = @ \/ Top.cut]
  /\ Return([score |-> Top.best_score, best_move |-> Top.best_move])
  /\ UNCHANGED <<position, root, roots, policy, searches, last_lookup>>

\* new_game(): the cache is cleared.
ClearCache ==
  /\ UNCHANGED non_search_vars
  /\ pc \in {"idle", "done"}
  /\ cache.entries # {}
  /\ cache' = EmptyCache
  /\ UNCHANGED <<position, frames, pc, sret, root, roots, policy, searches,
                 last_lookup, results, trail>>

SearchInit ==
  /\ roots \in SearchRoots
  /\ position = FirstRoot(roots)
  /\ frames = <<>>
  /\ cache = EmptyCache
  /\ pc = "idle"
  /\ sret = [score |-> 0, best_move |-> NoMove, entry |-> position]
  /\ root = [pos |-> position, depth |-> 0, fresh |-> TRUE]
  /\ policy \in Policies
  /\ searches = 0
  /\ last_lookup = [requested |-> 0, depth_searched |-> 0, hit |-> FALSE,
                    refused |-> FALSE]
  /\ results = {}
  /\ trail = [cut |-> FALSE, undone |-> {}, hit |-> FALSE, deeper |-> FALSE]

SearchIdle == SearchInit /\ policy = "captures_first" /\ roots = {EpRoot, EpGrand}

\* Plain minimax over the same tree with the same leaf evaluation.
RECURSIVE minimax(_, _, _)
minimax(pos, depth, side) ==
  IF is_leaf(pos, depth) THEN evaluate(pos)
  ELSE LET scores == {minimax(apply(pos, m).pos, depth - 1, side) : m \in legal_moves(pos)}
       IN IF maximizing(pos, side)
          THEN CHOOSE x \in scores : \A y \in scores : y <= x
          ELSE CHOOSE x \in scores : \A y \in scores : x <= y

(***************************************************************************)
(* Specifications                                                          *)
(***************************************************************************)

SpecRulesInit == RulesInit /\ GameIdle /\ ImportInit /\ SearchIdle
SpecRulesNext == ApplyLegalMove \/ ApplyLineMove \/ ApplyShuffleMove
SpecRules == SpecRulesInit /\ [][SpecRulesNext]_vars

SpecInit == GameInit /\ RulesIdle /\ ImportInit /\ SearchIdle
SpecNext == GameNext
Spec == SpecInit /\ [][SpecNext]_vars

\* The scheduling of the game.  A worker thread that has been started and
\* finds board_lock free runs to its end, where it hands execute_move to
\* root.after: the step of GetAiMove seen on the worker.
worker_returns ==
  /\ worker.state = "thinking"
  /\ board_lock.held_by = "none"
  /\ worker' \in {[state |-> "scheduled", move |-> m] : m \in MoveInputs \cup {NoMove}}

\* The Tk event loop, while the GUI thread is not blocked, runs the callbacks
\* handed to root.after: execute_move (the step of ExecuteMove seen on the
\* worker) and enter_review_mode (the step of EnterReviewTimer seen on the
\* timers).
execute_move_runs ==
  /\ gui_runs
  /\ worker.state = "scheduled"
  /\ review_timers < MaxTimers
  /\ worker' = [state |-> "idle", move |-> NoMove]

enter_review_mode_runs ==
  /\ gui_runs
  /\ review_timers > 0
  /\ review_timers' = review_timers - 1

SpecLive ==
  /\ SpecInit /\ [][SpecNext]_vars
  /\ WF_worker(worker_returns)
  /\ WF_worker(execute_move_runs)
  /\ WF_review_timers(enter_review_mode_runs)

SpecCallsInit == GameIdle /\ RulesIdle /\ ImportInit /\ SearchIdle
SpecCallsNext ==
  \/ CallCachedOllamaMove
  \/ CallOllamaAttempts
  \/ CallGetBestMove
  \/ CallGetAiMove
SpecCalls == SpecCallsInit /\ [][SpecCallsNext]_vars

SpecImportInit == ImportInit /\ RulesIdle /\ GameIdle /\ SearchIdle
SpecImportNext == GetPositionFromAttribute \/ GetPositionFromPieces \/ DetectBoardToFen
SpecImport == SpecImportInit /\ [][SpecImportNext]_vars

SpecSearchInit == SearchInit /\ RulesIdle /\ GameIdle /\ ImportInit
SpecSearchNext ==
  \/ StartSearch
  \/ Leaf
  \/ CacheHit
  \/ Expand
  \/ Descend
  \/ ReturnToParent
  \/ FinishNode
  \/ ClearCache
SpecSearch == SpecSearchInit /\ [][SpecSearchNext]_vars

(***************************************************************************)
(* Properties                                                              *)
(***************************************************************************)

\* C1: undo_move, called after n >= 1 plies outside review mode while the AI
\* is not thinking, returns True and leaves chess_board, move_history,
\* board_history, evaluations and best_moves as they were before the last
\* min(2, n) plies.
UndoRestoresState ==
  [][(UndoMove /\ move_history # <<>> /\ ~review_mode /\ ~ai_thinking)
       => LET n == Len(move_history)
          IN /\ ret' = [op |-> "undo_move", val |-> TRUE]
             /\ GameState' = before_ply[n - MinOf(2, n) + 1]
             /\ Len(move_history') = n - MinOf(2, n)]_vars

\* C2: a call of make_move with a move that the game being over, review mode
\* or the board's legal moves rule out returns False and changes none of
\* chess_board, the four lists, current_turn and last_move; every step that
\* can call make_move changes all of them together or none of them.
MoveObjects ==
  <<chess_board, move_history, board_history, evaluations, best_moves,
    current_turn, last_move>>

AppliedCompletely ==
  /\ Len(chess_board'.stack) = Len(chess_board.stack) + 1
  /\ chess_board'.stack[Len(chess_board'.stack)].prev = chess_board.pos
  /\ move_history' = Append(move_history, move_history'[Len(move_history')])
  /\ board_history' = Append(board_history, chess_board')
  /\ Len(evaluations') = Len(evaluations) + 1
  /\ Len(best_moves') = Len(best_moves) + 1
  /\ current_turn' = Opp(current_turn)
  /\ ret' = [op |-> "make_move", val |-> TRUE]

RejectedMoveChangesNothing ==
  [][/\ (ExecuteMove /\ worker.move # NoMove
           /\ (game_over \/ review_mode
                 \/ worker.move \notin legal_moves(chess_board.pos)))
        => (ret' = [op |-> "make_move", val |-> FALSE] /\ UNCHANGED MoveObjects)
     /\ (OnClick \/ ExecuteMove)
        => (UNCHANGED MoveObjects \/ AppliedCompletely)]_vars

\* make_move has refused a move after moves were made.
MoveRefused ==
  /\ ret = [op |-> "make_move", val |-> FALSE]
  /\ move_history # <<>>

\* C5: a move after which check_game_end finds checkmate, stalemate,
\* insufficient material, the fifty-move rule or repetition sets game_over;
\* from then on every step leaves game_over True and chess_board as it is,
\* or is a reset_game that starts a new game.
AfterReset ==
  /\ chess_board = NewBoard
  /\ move_history = <<>>
  /\ ~game_over

GameOverIsTerminal ==
  [][/\ (chess_board' # chess_board /\ game_end_reason(chess_board') # ""
           /\ (OnClick \/ ExecuteMove))
        => game_over'
     /\ (game_over /\ game_end_reason(chess_board) # "")
        => \/ game_over' /\ chess_board' = chess_board
           \/ AfterReset']_vars

\* The game has ended by checkmate, review mode has been entered and left,
\* and undo_move has been called since the mating move.
UndoTriedAfterCheckmate ==
  /\ game_over
  /\ game_end_reason(chess_board) = "checkmate"
  /\ ~review_mode
  /\ review_timers = 0
  /\ ret.op = "undo_move"

\* C6: when a call of search returns, the position is the one the call was
\* entered with (grid, side to move, castling rights, en-passant target,
\* clocks, repetition counts), at every depth and after a cutoff too; when
\* the outermost call has returned it is the position the caller passed.
SearchRestoresPosition ==
  /\ pc \in {"returned", "done"} => position = sret.entry
  /\ pc = "done" => position = root.pos

\* A search of the deepest kind has ended after a cutoff and after a castling
\* move was made and taken back.
SearchDoneAfterCutoff ==
  /\ pc = "done"
  /\ root.depth = MaxDepth
  /\ trail.cut
  /\ "castling" \in trail.undone

\* C7: an entry returned in place of a search has a depth_searched of at
\* least the depth requested at the node.
CachedEntryDeepEnough ==
  last_lookup.hit => last_lookup.depth_searched >= last_lookup.requested

\* An entry has been returned, and an entry too shallow for the request has
\* been passed over and its node searched.
EntryReturnedAndEntryRefused == last_lookup.hit /\ last_lookup.refused

\* C8: for the same position signature and requested depth, a search that
\* begins with a populated cache, and is not answered from an entry deeper
\* than requested, returns the score of a search that begins with an empty
\* cache.
CacheTransparent ==
  \A a \in results, b \in results :
     (a.root = b.root /\ a.depth = b.depth /\ a.fresh /\ ~b.fresh /\ ~b.deeper)
       => a.score = b.score

\* C9: the score of every outermost call of search, under either ordering,
\* equals the score of plain minimax over the same tree (no entry of a deeper
\* search standing in for a node) with the same leaf evaluation.
SearchEqualsMinimax ==
  (pc = "done" /\ ~trail.deeper)
    => sret.score = minimax(root.pos, root.depth, root.pos.stm)

\* C10 as stated: after 1.e4 e5 2.Qh5 Nc6 3.Qxf7 black is in check, has no
\* legal move and the game is classified as checkmate.
C10Line ==
  <<Mv(4, 1, 4, 3), Mv(4, 6, 4, 4), Mv(3, 0, 7, 4), Mv(1, 7, 2, 5), Mv(7, 4, 5, 6)>>

AfterQxf7 == rmode = "line" /\ MovesOf(rboard) = C10Line

QxF7IsCheckmate ==
  AfterQxf7 =>
    /\ rboard.pos.stm = "black"
    /\ is_in_check(rboard.pos, "black")
    /\ legal_moves(rboard.pos) = {}
    /\ game_end_reason(rboard) = "checkmate"

\* C10: after 1.e4 e5 2.Qh5 Nc6 3.Qxf7 black is in check and has exactly one
\* legal move, the capture of the queen by the king, so the game is not
\* classified as ended.
QxF7IsCheckWithOneReply ==
  AfterQxf7 =>
    /\ rboard.pos.stm = "black"
    /\ is_in_check(rboard.pos, "black")
    /\ legal_moves(rboard.pos) = {Mv(4, 7, 5, 6)}
    /\ game_end_reason(rboard) = ""

\* The position after 3.Qxf7, the queen standing on f7.
QueenOnF7 == AfterQxf7 /\ rboard.pos.grid[SqAt(5, 6)] = "Q"

\* C3: an import whose input is malformed (a notation that does not parse, a
\* capture without a board, a generated notation that does not parse) never
\* hands the standard initial position to its caller.
MalformedImportNotReplaced ==
  import_ret.malformed => import_ret.out # STARTING_FEN

\* C4: every move that legal_moves returns leaves the mover's own king
\* unattacked: after the move no piece of the opponent has a pseudo-legal
\* move that captures the mover's king.
KingCapturable(pos, c) ==
  \E sq \in Squares :
     /\ IsColor(pos.grid[sq], Opp(c))
     /\ \E mv \in pseudo_moves([pos EXCEPT !.stm = Opp(c)], sq) :
          mv.to = king_square(pos.grid, c)

LegalMovesKeepKingSafe ==
  \A m \in legal_moves(rboard.pos) :
     ~KingCapturable(ApplyCore(rboard.pos, m), rboard.pos.stm)

\* An en-passant capture has been played from a position in which a pinned
\* piece had pseudo-legal moves that legal_moves left out.
EnPassantPlayedPastPin ==
  /\ rboard.stack # <<>>
  /\ LET last == rboard.stack[Len(rboard.stack)]
     IN /\ is_en_passant(last.prev, last.move)
        /\ \E sq \in OwnSquares(last.prev) :
             /\ KindOf(last.prev.grid[sq]) # "K"
             /\ legal_moves_from(last.prev, sq) # pseudo_moves(last.prev, sq)
        /\ \E m \in legal_moves(last.prev) : is_castling(last.prev, m)

\* Two positions are the same position: same pieces on the same squares, same
\* side to move, same castling rights and the same moves available.
SamePosition(p, q) ==
  /\ p.grid = q.grid
  /\ p.stm = q.stm
  /\ p.castling = q.castling
  /\ legal_moves(p) = legal_moves(q)

\* How many times the current position of a board has occurred.
Occurrences(b) ==
  Cardinality({i \in 1..Len(b.stack) : SamePosition(b.stack[i].prev, b.pos)}) + 1

\* C11: along every shuffle of knights, the repetition is reported (by the
\* board's is_repetition, by check_game_end's chain and by the counts that
\* apply keeps) exactly when the current position has occurred three times.
ShuffleRepetitionDetected ==
  rmode = "shuffle" =>
    LET pos == position_along(rboard, Len(rboard.stack))
        thrice == Occurrences(rboard) >= 3
    IN /\ is_repetition(rboard) <=> thrice
       /\ (game_end_reason(rboard) = "repetition") <=> thrice
       /\ is_threefold_repetition(pos) <=> thrice
       /\ thrice => seen_count(pos.seen, Signature(pos)) >= 3

\* After eight plies of shuffling the starting position, the one after 1.e4
\* included, is on the board for the third time.
StartSeenThreeTimes ==
  /\ rmode = "shuffle"
  /\ rply = MaxShufflePlies
  /\ rboard.stack[1].prev.ep # NoSquare
  /\ SamePosition(rboard.pos, rboard.stack[1].prev)
  /\ Occurrences(rboard) = 3
  /\ is_repetition(rboard)

\* C12 as stated: no Position operation, apply or undo, sets a castling-right
\* flag that was clear before it.
CastlingRightsNeverSetAgain ==
  [][(Descend \/ ReturnToParent) => position'.castling \subseteq position.castling]_vars

\* C12: no apply sets a castling-right flag that was clear before it; undo
\* puts back the flags of the position the move was made in.
CastlingRightsNeverSetByApply ==
  [][/\ Descend => position'.castling \subseteq position.castling
     /\ ReturnToParent => position'.castling = Top.entry.castling]_vars

\* A search has ended in which a right was cleared by a king move, by a rook
\* move and by the capture of the rook at home, each followed by other moves.
RightsClearedThreeWays ==
  /\ pc = "done"
  /\ root.depth = MaxDepth
  /\ root.pos.castling # {}
  /\ {"right_lost_king_moved", "right_lost_rook_moved", "right_lost_rook_taken"}
       \subseteq trail.undone

\* A pawn move to an empty square of a neighbouring file: an en-passant
\* capture, told without the target.
EnPassantShaped(pos, m) ==
  /\ KindOf(pos.grid[m.from]) = "P"
  /\ FileOf(m.to) # FileOf(m.from)
  /\ pos.grid[m.to] = Empty

\* C13: the position a move has produced has an en-passant target exactly
\* when the move was a two-square pawn advance, the target being the square
\* passed over; and in every position pseudo_moves offers an en-passant
\* capture only onto the current target.
EnPassantTargetOnlyAfterDoublePush ==
  /\ rboard.stack # <<>> =>
       LET last == rboard.stack[Len(rboard.stack)]
           from == last.move.from
           to == last.move.to
           double == /\ KindOf(last.prev.grid[from]) = "P"
                     /\ Abs(RankOf(to) - RankOf(from)) = 2
       IN /\ (rboard.pos.ep # NoSquare) <=> double
          /\ double => /\ FileOf(rboard.pos.ep) = FileOf(from)
                        /\ 2 * RankOf(rboard.pos.ep) = RankOf(from) + RankOf(to)
  /\ \A sq \in OwnSquares(rboard.pos) : \A m \in pseudo_moves(rboard.pos, sq) :
        EnPassantShaped(rboard.pos, m) => m.to = rboard.pos.ep

\* A two-square advance has just been played and a capture onto the square
\* passed over is offered.
EnPassantOfferedAfterDoublePush ==
  /\ rboard.stack # <<>>
  /\ rboard.stack[Len(rboard.stack)].prev.ep = NoSquare
  /\ rboard.pos.ep # NoSquare
  /\ \E sq \in OwnSquares(rboard.pos) : \E m \in pseudo_moves(rboard.pos, sq) :
        EnPassantShaped(rboard.pos, m)


\* ---- the Ollama result cache ------------------------------------------------

\* C15: immediately after new_game (called by the user or by switch_side)
\* has reset the game, the cache of Ollama results holds no entry.
CacheEmptyAfterNewGame ==
  [][((NewGame \/ SwitchSide) /\ ~ai_thinking) => ollama_cache'.order = <<>>]_vars


\* C14: after any sequence of calls the cache holds no more entries than
\* its capacity, and the entries it holds are those of the positions used
\* most recently, in the order of their last use: what a store into the full
\* cache evicts is the entry least recently looked up or stored.
CacheHoldsMostRecentlyUsed ==
  ai_ret.op = "get_ollama_move" =>
    LET order == ollama_cache.order
        recent == ai_ret.recent
        held == IF Len(recent) < transposition_table_size
                THEN Len(recent) ELSE transposition_table_size
    IN /\ Len(order) <= transposition_table_size
       /\ Len(order) = held
       /\ \A i \in 1..held :
            order[i].key = fen_key(CachedPositions[recent[Len(recent) - held + i]])

\* The full cache was looked up at its oldest entry and then stored into: the
\* entry evicted is the second oldest, the oldest is still held.
EvictedAfterLookup ==
  /\ ai_ret.op = "get_ollama_move"
  /\ ~ai_ret.hit
  /\ Len(ai_ret.recent) = transposition_table_size + 1
  /\ ai_ret.recent[1] = 2
  /\ lru_has(ollama_cache, fen_key(CachedPositions[1]))
  /\ ~lru_has(ollama_cache, fen_key(CachedPositions[2]))


\* ---- the retries of cached_ollama_move --------------------------------------

Requests(log) == SelectSeq(log, LAMBDA e : e.ev = "request")
LegalAnswer(pos, r) == r.kind = "move" /\ is_legal(pos, r.move)
FirstLegal(pos, script) ==
  IF \E i \in 1..MaxAttempts : LegalAnswer(pos, script[i])
  THEN CHOOSE i \in 1..MaxAttempts :
         /\ LegalAnswer(pos, script[i])
         /\ \A j \in 1..i - 1 : ~LegalAnswer(pos, script[j])
  ELSE 0

\* C20: cached_ollama_move makes at most 3 requests; between attempt k and
\* attempt k+1 it sleeps 2^k seconds whatever made attempt k fail; the first
\* answer with a legal move ends the loop and its move is returned.
RetriesBackOffExponentially ==
  ai_ret.op = "cached_ollama_move" =>
    LET log == ai_ret.log
        first == FirstLegal(chess_board.pos, ai_ret.script)
    IN /\ Len(Requests(log)) <= MaxAttempts
       /\ \A i \in 1..Len(log) :
            (log[i].ev = "request" /\ i < Len(log)) =>
              /\ log[i + 1] = [ev |-> "sleep", n |-> Power(2, log[i].n)]
              /\ i + 2 <= Len(log)
              /\ log[i + 2] = [ev |-> "request", n |-> log[i].n + 1]
       /\ Len(Requests(log)) = IF first = 0 THEN MaxAttempts ELSE first
       /\ ai_ret.move = IF first = 0 THEN NoMove ELSE ai_ret.script[first].move


\* ---- get_best_move ------------------------------------------------------------

\* C16: get_best_move never raises and leaves the board as given; without an
\* API key, after a request that raised or was answered with another status
\* than 200, and for a body without a text, an empty text or a move text that
\* does not parse to a legal move, it returns None with a message; the move
\* it returns parses as SAN to a move that is legal on the board.
GetBestMoveReturnsLegalOrNone ==
  ai_ret.op = "get_best_move" =>
    LET r == ai_ret.result
        out == ai_ret.outcome
        parsed == parse_san(ai_ret.given, text_move(out.text))
        good == /\ ai_ret.api_key
                /\ out.kind = "text"
                /\ out.text # <<>>
                /\ ~parsed.raised
                /\ is_legal(ai_ret.given, parsed.move)
    IN /\ ~r.raised
       /\ r.board = ai_ret.given
       /\ ~good => (r.move = None /\ r.message # "")
       /\ r.move # None =>
            /\ ~parse_san(ai_ret.given, r.move).raised
            /\ is_legal(ai_ret.given, parse_san(ai_ret.given, r.move).move)


\* ---- load_pgn ---------------------------------------------------------------

\* C17: load_pgn, called while the AI is not thinking with a file that holds
\* a game, returns with review_mode and game_over set, move_history holding
\* the moves of the main line in order and board_history one board more.
LoadPgnEntersReview ==
  [][\A file \in PgnGames, ok \in AnalyseOutcomes :
       (~ai_thinking /\ gui_runs /\ load_pgn(file, ok)) =>
         /\ gui_runs'
         /\ board_lock'.held_by = "none"
         /\ review_mode' /\ game_over'
         /\ [i \in 1..Len(move_history') |-> move_history'[i].move] = file.moves
         /\ Len(board_history') = Len(move_history') + 1]_vars


\* ---- the move sources of the AI worker ---------------------------------------

Priority == <<"book", "ollama", "stockfish", "random">>
Asked(source) == \E i \in 1..Len(ai_ret.consulted) : ai_ret.consulted[i] = source
Gave(source) ==
  CASE source = "book" -> ai_ret.book
    [] source = "ollama" -> ai_ret.ollama
    [] source = "stockfish" -> ai_ret.stockfish
    [] source = "random" -> ai_ret.random

\* C19: the worker asks its move sources in the order book, Ollama,
\* Stockfish, random: the book only while fewer than 10 plies have been
\* played, Ollama only if the book gave no move, Stockfish only if Ollama
\* gave no move and an engine is loaded, a random move only if Stockfish is
\* not loaded or gave no move; no source is asked after one that gave a move,
\* and the move returned is that of the last source asked.
SourcesInPriorityOrder ==
  ai_ret.op = "get_ai_move" =>
    LET c == ai_ret.consulted
    IN /\ \A i, j \in 1..Len(c) :
            i < j => \E a, b \in 1..Len(Priority) :
                       a < b /\ c[i] = Priority[a] /\ c[j] = Priority[b]
       /\ Asked("book") <=> ai_ret.plies < OpeningPlies
       /\ Asked("ollama") <=> ~(Asked("book") /\ Gave("book") # NoMove)
       /\ Asked("stockfish") <=>
            (Asked("ollama") /\ Gave("ollama") = NoMove /\ ai_ret.engine # "none")
       /\ Asked("random") <=>
            /\ Asked("ollama") /\ Gave("ollama") = NoMove
            /\ (ai_ret.engine = "none" \/ Gave("stockfish") = NoMove)
       /\ \A i \in 1..Len(c) : Gave(c[i]) # NoMove => i = Len(c)
       /\ c # <<>> /\ ai_ret.move = Gave(c[Len(c)])

\* After ten plies the book, though it has a move, is passed over, Ollama
\* and Stockfish give no move and the move is a random one.
RandomMoveAsLastResort ==
  /\ ai_ret.op = "get_ai_move"
  /\ ai_ret.plies = OpeningPlies
  /\ ai_ret.book # NoMove
  /\ ai_ret.consulted = <<"ollama", "stockfish", "random">>
  /\ ai_ret.move = ai_ret.random


\* ---- the user waits for the AI ------------------------------------------------

\* C18: while ai_thinking is set the board, the move history, the player's
\* side, the turn and game_over change only by the worker's execute_move, and
\* no worker is started: on_click, undo_move, new_game, switch_side, load_pgn,
\* resign and a further ai_move leave them as they are.
OnlyWorkerMovesWhileThinking ==
  [][ai_thinking =>
       /\ (<<chess_board, move_history, player_side, current_turn, game_over>>'
             # <<chess_board, move_history, player_side, current_turn, game_over>>
           => ExecuteMove)
       /\ (worker'.state = "thinking" => worker.state = "thinking")]_vars

\* The worker is thinking about its answer to the player's move while a
\* second ai_move callback is pending and every handler can be called.
SecondAiMovePendingWhileThinking ==
  /\ ai_thinking
  /\ worker.state = "thinking"
  /\ ai_timers > 0
  /\ move_history # <<>>
  /\ ~game_over /\ ~review_mode
  /\ gui_runs


\* ---- the evaluation bar -------------------------------------------------------

\* C21: the evaluation update_eval_bar displays is the one recorded for the
\* position on the board: evaluations[k] for the live board after k plies
\* during play, evaluations[current_review_move] in review mode.
ShownPly == IF review_mode THEN current_review_move ELSE Len(move_history)
EvalBarShowsCurrentPosition ==
  update_eval_bar.label = evaluations[ShownPly + 1]


\* ---- the four lists -----------------------------------------------------------

\* C22: in every state the condition undo_move tests holds:
\* len(move_history) == len(board_history) - 1 == len(evaluations)
\* == len(best_moves).
ListsInSyncAsUndoRequires ==
  /\ Len(move_history) = Len(board_history) - 1
  /\ Len(board_history) - 1 = Len(evaluations)
  /\ Len(evaluations) = Len(best_moves)


\* ---- the side the AI moves for ------------------------------------------------

\* C24: every move execute_move applies to chess_board is a legal move of
\* the position it is applied to, and it is applied when current_turn is not
\* player_side, for the side that the player does not have.
AiMovesOnlyForItsSide ==
  [][(ExecuteMove /\ chess_board' # chess_board) =>
       /\ is_legal(chess_board.pos, worker.move)
       /\ chess_board' = board_push(chess_board, worker.move)
       /\ current_turn # player_side
       /\ chess_board.pos.stm # player_side
       /\ ColorOf(chess_board.pos.grid[worker.move.from]) # player_side]_vars

\* The AI has answered the player's move while a second ai_move callback was
\* pending, and it is the player's turn again.
AiAnsweredWithCallbackPending ==
  /\ ret = [op |-> "make_move", val |-> TRUE]
  /\ worker.state = "idle" /\ ~ai_thinking
  /\ Len(move_history) >= 2
  /\ current_turn = player_side
  /\ ai_timers > 0


\* ---- the end of the AI's turn -------------------------------------------------

====
